---------------------------- MODULE Spec2Model ----------------------------
(***************************************************************************)
(* afterpaths: the source-adapter layer (sources/base.py), the Cursor      *)
(* adapter (sources/cursor.py), the commands that resolve a SESSION_REF     *)
(* and summarize (cli.py) and the local analytics (local_analytics.py).     *)
(*                                                                         *)
(* Python strings that the code inspects by character (session ids,         *)
(* folder URIs, project labels, roles, dictionary keys) are sequences of    *)
(* one-character strings.  A parsed JSON value is a record tagged by its    *)
(* Python type; a dict is a sequence of key/value pairs in insertion       *)
(* order.  A call's outcome is a record with the exception it raised       *)
(* ("none" when it returned) and the value it returned.                     *)
(***************************************************************************)
EXTENDS Integers, Sequences, FiniteSets, TLC

VARIABLES
    storage,   \* the workspaceStorage root: its state and its directory entries
    claude,    \* the other registered adapter: availability and its sessions
    last,      \* the last call made on the adapter layer and its outcome
    held,      \* the SessionInfo a caller kept from a listing (<<>> when none)
    faults,    \* how many times the owning application changed the storage
    home       \* afterpaths' own files: the analytics file, a session's summary
               \* and index entry, and the day the clock shows

vars == <<storage, claude, last, held, faults, home>>

---------------------------------------------------------------------------
(* Bounds of the model *)

MaxFaults == 2
MaxMTime == 2
MaxClaude == 2

---------------------------------------------------------------------------
(* Strings *)

S_agent == <<"a","g","e","n","t","-">>
S_file == <<"f","i","l","e",":","/","/">>
S_chat == <<"c","h","a","t","-">>
S_tab == <<"t","a","b","-">>
S_composer == <<"c","o","m","p","o","s","e","r","-">>
S_cursor == <<"c","u","r","s","o","r">>
S_claude_code == <<"c","l","a","u","d","e","_","c","o","d","e">>
S_folder == <<"f","o","l","d","e","r">>
S_messages == <<"m","e","s","s","a","g","e","s">>
S_id == <<"i","d">>
S_tabs == <<"t","a","b","s">>
S_composers == <<"c","o","m","p","o","s","e","r","s">>
S_title == <<"t","i","t","l","e">>
S_role == <<"r","o","l","e">>
S_content == <<"c","o","n","t","e","n","t">>
S_timestamp == <<"t","i","m","e","s","t","a","m","p">>
S_type == <<"t","y","p","e">>
S_text == <<"t","e","x","t">>
S_tool_use == <<"t","o","o","l","_","u","s","e">>
S_tool_result == <<"t","o","o","l","_","r","e","s","u","l","t">>
S_name == <<"n","a","m","e">>
S_input == <<"i","n","p","u","t">>
S_unknown == <<"u","n","k","n","o","w","n">>
S_user == <<"u","s","e","r">>
S_assistant == <<"a","s","s","i","s","t","a","n","t">>
S_human == <<"h","u","m","a","n">>
S_ai == <<"a","i">>
S_system == <<"s","y","s","t","e","m">>
S_ellipsis == <<".",".",".">>
S_None == <<"N","o","n","e">>
S_True == <<"T","r","u","e">>
S_False == <<"F","a","l","s","e">>

K_chatdata == "workbench.panel.aichat.view.aichat.chatdata"
K_composer == "composer.composerData"
K_prompts == "aiService.prompts"

(* str.startswith *)
StartsWith(s, p) ==
    /\ Len(s) >= Len(p)
    /\ SubSeq(s, 1, Len(p)) = p

(* s[n:] *)
DropFirst(s, n) ==
    IF Len(s) <= n THEN <<>> ELSE SubSeq(s, n + 1, Len(s))

(* s[:n] *)
TakeFirst(s, n) ==
    IF Len(s) <= n THEN s ELSE SubSeq(s, 1, n)

UpperLetters ==
    <<"A","B","C","D","E","F","G","H","I","J","K","L","M",
      "N","O","P","Q","R","S","T","U","V","W","X","Y","Z">>

LowerLetters ==
    <<"a","b","c","d","e","f","g","h","i","j","k","l","m",
      "n","o","p","q","r","s","t","u","v","w","x","y","z">>

LowerChar(c) ==
    IF \E i \in 1..Len(UpperLetters) : UpperLetters[i] = c
    THEN LowerLetters[CHOOSE i \in 1..Len(UpperLetters) : UpperLetters[i] = c]
    ELSE c

(* str.lower *)
Lower(s) ==
    [i \in 1..Len(s) |-> LowerChar(s[i])]

DigitChars == <<"0","1","2","3","4","5","6","7","8","9">>

RECURSIVE Dec(_)
(* the decimal numeral of a natural number, as an f-string formats it *)
Dec(n) ==
    IF n < 10 THEN <<DigitChars[n + 1]>>
    ELSE Dec(n \div 10) \o <<DigitChars[(n % 10) + 1]>>

IsDigit(ch) == \E i \in 1..Len(DigitChars) : DigitChars[i] = ch

DigitValue(ch) == (CHOOSE i \in 1..Len(DigitChars) : DigitChars[i] = ch) - 1

RECURSIVE DigitsValue(_, _, _)
DigitsValue(s, i, acc) ==
    IF i > Len(s) THEN acc
    ELSE DigitsValue(s, i + 1, 10 * acc + DigitValue(s[i]))

(* int(s) of a string: an optional sign and decimal digits, else ValueError *)
PyInt(s) ==
    LET signed == Len(s) > 0 /\ s[1] \in {"+", "-"}
        digits == IF signed THEN DropFirst(s, 1) ELSE s
    IN  IF Len(digits) = 0 \/ \E i \in 1..Len(digits) : ~IsDigit(digits[i])
        THEN [exc |-> "ValueError", val |-> <<>>]
        ELSE [exc |-> "none",
              val |-> IF signed /\ s[1] = "-" THEN 0 - DigitsValue(digits, 1, 0)
                      ELSE DigitsValue(digits, 1, 0)]

---------------------------------------------------------------------------
(* Parsed JSON values *)

JNull == [t |-> "null"]
JBool(b) == [t |-> "bool", b |-> b]
JNum(n) == [t |-> "num", n |-> n]
JStr(s) == [t |-> "str", s |-> s]
JList(l) == [t |-> "list", l |-> l]
JDict(d) == [t |-> "dict", d |-> d]

KV(k, v) == [k |-> k, v |-> v]

IsDict(j) == j.t = "dict"
IsList(j) == j.t = "list"
IsStr(j) == j.t = "str"

(* Python truthiness of a parsed value *)
Truthy(j) ==
    CASE j.t = "null" -> FALSE
      [] j.t = "bool" -> j.b
      [] j.t = "num" -> j.n # 0
      [] j.t = "str" -> Len(j.s) > 0
      [] j.t = "list" -> Len(j.l) > 0
      [] j.t = "dict" -> Len(j.d) > 0

HasKey(d, k) ==
    \E i \in 1..Len(d.d) : d.d[i].k = k

(* dict.get(k, default) *)
Get(d, k, default) ==
    IF HasKey(d, k)
    THEN d.d[CHOOSE i \in 1..Len(d.d) : d.d[i].k = k].v
    ELSE default

(* whether a value is hashable, that is, usable as a dict key *)
Hashable(j) ==
    j.t \notin {"list", "dict"}

RECURSIVE PyRepr(_)
RECURSIVE ReprItems(_, _)
RECURSIVE ReprPairs(_, _)
(* repr() of a parsed value (strings without quotes or escapes inside) *)
PyRepr(j) ==
    CASE j.t = "null" -> S_None
      [] j.t = "bool" -> IF j.b THEN S_True ELSE S_False
      [] j.t = "num" -> Dec(j.n)
      [] j.t = "str" -> <<"'">> \o j.s \o <<"'">>
      [] j.t = "list" -> <<"[">> \o ReprItems(j.l, 1) \o <<"]">>
      [] j.t = "dict" -> <<"{">> \o ReprPairs(j.d, 1) \o <<"}">>

ReprItems(l, i) ==
    IF i > Len(l) THEN <<>>
    ELSE (IF i > 1 THEN <<",", " ">> ELSE <<>>) \o PyRepr(l[i]) \o ReprItems(l, i + 1)

ReprPairs(d, i) ==
    IF i > Len(d) THEN <<>>
    ELSE (IF i > 1 THEN <<",", " ">> ELSE <<>>)
         \o <<"'">> \o d[i].k \o <<"'", ":", " ">> \o PyRepr(d[i].v)
         \o ReprPairs(d, i + 1)

(* a mutant of PyStr: repr() in the place of str() *)
PyStr_Repr(j) ==
    PyRepr(j)

(* str() of a parsed value, also what an f-string puts for it *)
PyStr(j) ==
    IF j.t = "str" THEN j.s ELSE PyRepr(j)

---------------------------------------------------------------------------
(* Raw text held by the storage, and json.loads *)

RawEmpty == [kind |-> "empty"]
RawGarbage == [kind |-> "garbage"]
Enc(j) == [kind |-> "json", j |-> j]

Returned(v) == [exc |-> "none", val |-> v]
Raised(e) == [exc |-> e, val |-> <<>>]

(* F applied to the value of x, which is computed once *)
With(x, F(_)) ==
    CHOOSE v \in {F(r) : r \in {x}} : TRUE

(* json.loads: the parsed value, or JSONDecodeError for text that is not JSON *)
JsonLoads(raw) ==
    IF raw.kind = "json" THEN Returned(raw.j) ELSE Raised("JSONDecodeError")

---------------------------------------------------------------------------
(* sources/base.py: the session model *)

SessionInfo(id, source, project, path, modified, size, summary) ==
    [session_id |-> id, source |-> source, project |-> project, path |-> path,
     modified |-> modified, size |-> size, summary |-> summary]

SessionEntry(role, content, timestamp, tool_name, tool_input, origin) ==
    [role |-> role, content |-> content, timestamp |-> timestamp,
     tool_name |-> tool_name, tool_input |-> tool_input,
     is_error |-> FALSE, model |-> JNull,
     \* not a field of the dataclass: the (message, part) index the entry was
     \* built from, part 0 standing for a message whose content is a string
     origin |-> origin]

(* a mutant of session_type: the prefix is tested without its hyphen *)
session_type_NoHyphen(s) ==
    IF StartsWith(s.session_id.s, SubSeq(S_agent, 1, 5)) THEN "agent" ELSE "main"

(* SessionInfo.session_type *)
session_type(s) ==
    IF StartsWith(s.session_id.s, S_agent) THEN "agent" ELSE "main"

---------------------------------------------------------------------------
(* sources/cursor.py: CursorAdapter *)

(* the items a for loop draws from a parsed value: the elements of a list,  *)
(* the characters of a string, the keys of a dict; TypeError otherwise      *)
Iterate(j) ==
    CASE j.t = "list" -> Returned(j.l)
      [] j.t = "str" -> Returned([i \in 1..Len(j.s) |-> JStr(<<j.s[i]>>)])
      [] j.t = "dict" -> Returned([i \in 1..Len(j.d) |-> JStr(j.d[i].k)])
      [] OTHER -> Raised("TypeError")

(* sessions[chat_id] = chat on an insertion-ordered dict *)
DictSet(sessions, id, data) ==
    IF \E i \in 1..Len(sessions) : sessions[i].id = id
    THEN [i \in 1..Len(sessions) |->
            IF sessions[i].id = id THEN [id |-> id, data |-> data] ELSE sessions[i]]
    ELSE Append(sessions, [id |-> id, data |-> data])

DictHas(sessions, id) ==
    \E i \in 1..Len(sessions) : sessions[i].id = id

DictAt(sessions, id) ==
    sessions[CHOOSE i \in 1..Len(sessions) : sessions[i].id = id].data

(* a mutant of NormalizeRole: the alias table is looked up with the role as *)
(* it is written                                                            *)
NormalizeRole_CaseSensitive(role) ==
    IF ~IsStr(role) THEN Raised("AttributeError")
    ELSE Returned(CASE role.s = S_human -> S_user
                    [] role.s = S_ai -> S_assistant
                    [] role.s = S_system -> S_user
                    [] OTHER -> Lower(role.s))

(* _normalize_role *)
NormalizeRole(role) ==
    IF ~IsStr(role) THEN Raised("AttributeError")
    ELSE LET low == Lower(role.s)
         IN  Returned(CASE low = S_human -> S_user
                        [] low = S_ai -> S_assistant
                        [] low = S_system -> S_user
                        [] OTHER -> low)

(* _get_workspace_folder: the folder, None (JNull), or the exception *)
GetWorkspaceFolder(entry) ==
    CASE entry.desc.kind = "absent" -> Returned(JNull)
      [] entry.desc.kind = "unreadable" -> Raised("OSError")
      [] OTHER ->
         LET parsed == JsonLoads(entry.desc)
         IN  IF parsed.exc # "none" THEN Returned(JNull)
             ELSE IF ~IsDict(parsed.val) THEN Raised("AttributeError")
             ELSE LET folder == Get(parsed.val, S_folder, JNull)
                  IN  IF ~Truthy(folder) THEN Returned(JNull)
                      ELSE IF ~IsStr(folder) THEN Raised("AttributeError")
                      ELSE IF StartsWith(folder.s, S_file)
                           THEN Returned(JStr(DropFirst(folder.s, 7)))
                           ELSE Returned(folder)

RECURSIVE ChatsFold(_, _, _, _)
(* cursor.py 203-206 and 210-213: the chats (or tabs) that are dicts with   *)
(* messages, under their id or prefix-{i}                                   *)
ChatsFold(items, i, prefix, sessions) ==
    IF i > Len(items) THEN Returned(sessions)
    ELSE LET chat == items[i]
         IN  IF IsDict(chat) /\ Truthy(Get(chat, S_messages, JNull))
             THEN LET chat_id == Get(chat, S_id, JStr(prefix \o Dec(i - 1)))
                  IN  IF ~Hashable(chat_id) THEN Raised("TypeError")
                      ELSE With(DictSet(sessions, chat_id, chat),
                                LAMBDA next : ChatsFold(items, i + 1, prefix, next))
             ELSE ChatsFold(items, i + 1, prefix, sessions)

RECURSIVE ComposersFold(_, _, _)
(* cursor.py 219-221 *)
ComposersFold(pairs, i, sessions) ==
    IF i > Len(pairs) THEN sessions
    ELSE With(IF IsDict(pairs[i].v)
              THEN DictSet(sessions, JStr(S_composer \o pairs[i].k), pairs[i].v)
              ELSE sessions,
              LAMBDA next : ComposersFold(pairs, i + 1, next))

(* cursor.py 192-221: one fetched row *)
ProcessRow(row, sessions) ==
    IF row.value.kind = "empty" THEN Returned(sessions)
    ELSE LET parsed == JsonLoads(row.value)
             data == parsed.val
         IN  IF parsed.exc # "none" THEN Returned(sessions)
             ELSE IF row.key = K_chatdata
             THEN IF IsList(data) THEN ChatsFold(data.l, 1, S_chat, sessions)
                  ELSE IF IsDict(data)
                  THEN LET tabs == Iterate(Get(data, S_tabs, JList(<<>>)))
                       IN  IF tabs.exc # "none" THEN Raised(tabs.exc)
                           ELSE ChatsFold(tabs.val, 1, S_tab, sessions)
                  ELSE Returned(sessions)
             ELSE IF row.key = K_composer
             THEN IF IsDict(data)
                  THEN LET composers == Get(data, S_composers, JDict(<<>>))
                       IN  IF ~IsDict(composers) THEN Raised("AttributeError")
                           ELSE Returned(ComposersFold(composers.d, 1, sessions))
                  ELSE Returned(sessions)
             ELSE Returned(sessions)

RECURSIVE RowsFold(_, _, _)
RowsFold(rows, i, sessions) ==
    IF i > Len(rows) THEN Returned(sessions)
    ELSE With(ProcessRow(rows[i], sessions),
              LAMBDA r : IF r.exc # "none" THEN r ELSE RowsFold(rows, i + 1, r.val))

KnownKeys == {K_prompts, K_chatdata, K_composer}

IsKnownRow(row) == row.key \in KnownKeys

(* a mutant of GetChatData: an sqlite3.Error is not caught *)
GetChatData_Uncaught(store) ==
    CASE store.state = "nodir" ->
            [exc |-> "OperationalError", val |-> <<>>, opened |-> FALSE,
             closed |-> FALSE, created |-> FALSE]
      [] store.state \in {"absent", "locked", "notdb", "noschema"} ->
            [exc |-> "OperationalError", val |-> <<>>, opened |-> TRUE,
             closed |-> FALSE, created |-> (store.state = "absent")]
      [] OTHER ->
            With(RowsFold(SelectSeq(store.rows, IsKnownRow), 1, <<>>),
                 LAMBDA r : [exc |-> r.exc, val |-> r.val, opened |-> TRUE,
                             closed |-> (r.exc = "none"), created |-> FALSE])

(* _get_chat_data on a store file: the dict of sessions (a sequence of id  *)
(* and record, in insertion order) or the exception that escapes; whether   *)
(* the connection it opened was closed; whether connect created the file    *)
GetChatData(store) ==
    CASE store.state = "nodir" ->
            [exc |-> "none", val |-> <<>>, opened |-> FALSE, closed |-> FALSE,
             created |-> FALSE]
      [] store.state = "absent" ->
            [exc |-> "none", val |-> <<>>, opened |-> TRUE, closed |-> FALSE,
             created |-> TRUE]
      [] store.state \in {"locked", "notdb", "noschema"} ->
            [exc |-> "none", val |-> <<>>, opened |-> TRUE, closed |-> FALSE,
             created |-> FALSE]
      [] OTHER ->
            With(RowsFold(SelectSeq(store.rows, IsKnownRow), 1, <<>>),
                 LAMBDA r : [exc |-> r.exc, val |-> r.val, opened |-> TRUE,
                             closed |-> (r.exc = "none"), created |-> FALSE])

SummaryLen == 60

(* _extract_summary *)
ExtractSummary(session_data) ==
    IF Truthy(Get(session_data, S_title, JNull))
    THEN Returned(Get(session_data, S_title, JNull))
    ELSE LET messages == Get(session_data, S_messages, JList(<<>>))
         IN  IF ~Truthy(messages) THEN Returned(JNull)
             ELSE CASE messages.t = "dict" -> Raised("KeyError")
                    [] messages.t \in {"num", "bool"} -> Raised("TypeError")
                    [] OTHER ->
                       LET first_msg == Iterate(messages).val[1]
                       IN  IF ~IsDict(first_msg) THEN Raised("AttributeError")
                           ELSE LET content == Get(first_msg, S_content, JStr(<<>>))
                                IN  IF IsStr(content)
                                    THEN IF Len(content.s) > SummaryLen
                                         THEN Returned(JStr(TakeFirst(content.s, SummaryLen)
                                                            \o S_ellipsis))
                                         ELSE Returned(content)
                                    ELSE Returned(JNull)

(* a mutant of AppendEntry: the new entry is put in front *)
AppendEntry_Prepend(entries, e) ==
    <<e>> \o entries

(* entries.append(SessionEntry(...)) *)
AppendEntry(entries, e) ==
    Append(entries, e)

(* cursor.py 102-136: one part of a list content *)
PartEntries(part, role, ts, origin, entries) ==
    IF IsDict(part)
    THEN LET type == Get(part, S_type, JNull)
         IN  CASE type = JStr(S_text) ->
                    LET r == NormalizeRole(role)
                    IN  IF r.exc # "none" THEN r
                        ELSE Returned(AppendEntry(entries,
                                SessionEntry(r.val, Get(part, S_text, JStr(<<>>)), ts,
                                             JNull, JNull, origin)))
               [] type = JStr(S_tool_use) ->
                    Returned(AppendEntry(entries,
                        SessionEntry(S_assistant,
                            JStr(<<"[","T","o","o","l",":"," ">>
                                 \o PyStr(Get(part, S_name, JStr(S_unknown)))
                                 \o <<"]">>),
                            ts, Get(part, S_name, JNull), Get(part, S_input, JNull),
                            origin)))
               [] type = JStr(S_tool_result) ->
                    Returned(AppendEntry(entries,
                        SessionEntry(S_tool_result,
                            JStr(PyStr(Get(part, S_content, JStr(<<>>)))),
                            ts, JNull, JNull, origin)))
               [] OTHER -> Returned(entries)
    ELSE IF IsStr(part)
    THEN LET r == NormalizeRole(role)
         IN  IF r.exc # "none" THEN r
             ELSE Returned(AppendEntry(entries,
                     SessionEntry(r.val, part, ts, JNull, JNull, origin)))
    ELSE Returned(entries)

RECURSIVE PartsFold(_, _, _, _, _, _)
PartsFold(parts, i, role, ts, mi, entries) ==
    IF i > Len(parts) THEN Returned(entries)
    ELSE With(PartEntries(parts[i], role, ts, <<mi, i>>, entries),
              LAMBDA r : IF r.exc # "none" THEN r
                         ELSE PartsFold(parts, i + 1, role, ts, mi, r.val))

(* cursor.py 95-144: one message *)
MessageEntries(msg, mi, entries) ==
    IF ~IsDict(msg) THEN Raised("AttributeError")
    ELSE LET role == Get(msg, S_role, JStr(S_user))
             content == Get(msg, S_content, JStr(<<>>))
             ts == Get(msg, S_timestamp, JNull)
         IN  IF IsList(content)
             THEN PartsFold(content.l, 1, role, ts, mi, entries)
             ELSE IF IsStr(content)
             THEN LET r == NormalizeRole(role)
                  IN  IF r.exc # "none" THEN r
                      ELSE Returned(AppendEntry(entries,
                              SessionEntry(r.val, content, ts, JNull, JNull, <<mi, 0>>)))
             ELSE Returned(entries)

RECURSIVE MessagesFold(_, _, _)
MessagesFold(msgs, i, entries) ==
    IF i > Len(msgs) THEN Returned(entries)
    ELSE With(MessageEntries(msgs[i], i, entries),
              LAMBDA r : IF r.exc # "none" THEN r
                         ELSE MessagesFold(msgs, i + 1, r.val))

NoStore == [state |-> "nodir", mtime |-> 0, size |-> 0, rows |-> <<>>]

(* the file a SessionInfo's path names, as the storage now holds it *)
StoreAt(st, path) ==
    IF /\ st.root = "ok"
       /\ \E i \in 1..Len(st.entries) : st.entries[i].name = path /\ st.entries[i].isdir
    THEN st.entries[CHOOSE i \in 1..Len(st.entries) :
                        st.entries[i].name = path /\ st.entries[i].isdir].store
    ELSE NoStore

(* cursor.py 86-146 on the dict _get_chat_data returned *)
ReadFrom(cd, session) ==
    IF cd.exc # "none" THEN Raised(cd.exc)
    ELSE IF Len(cd.val) = 0 \/ ~DictHas(cd.val, session.session_id)
    THEN Returned(<<>>)
    ELSE With(Iterate(Get(DictAt(cd.val, session.session_id), S_messages, JList(<<>>))),
              LAMBDA messages :
                  IF messages.exc # "none" THEN Raised(messages.exc)
                  ELSE MessagesFold(messages.val, 1, <<>>))

(* read_session: the entries or the exception; leaked counts the connections *)
(* opened and not closed; created tells that connect created the store file  *)
ReadSession(st, session) ==
    With(GetChatData(StoreAt(st, session.path)),
         LAMBDA cd :
             With(ReadFrom(cd, session),
                  LAMBDA r : [exc |-> r.exc, val |-> r.val,
                              leaked |-> IF cd.opened /\ ~cd.closed THEN 1 ELSE 0,
                              created |-> cd.created]))

NoFilter == [some |-> FALSE, s |-> <<>>]
Filter(p) == [some |-> TRUE, s |-> p]

RECURSIVE SessionsFold(_, _, _, _, _)
(* cursor.py 67-80: one SessionInfo per recovered session *)
SessionsFold(chat_data, i, entry, project, sessions) ==
    IF i > Len(chat_data) THEN Returned(sessions)
    ELSE With(ExtractSummary(chat_data[i].data),
              LAMBDA summary :
                  IF summary.exc # "none" THEN summary
                  ELSE With(Append(sessions,
                                SessionInfo(chat_data[i].id, S_cursor, project,
                                            entry.name, entry.store.mtime,
                                            entry.store.size, summary.val)),
                            LAMBDA next :
                                SessionsFold(chat_data, i + 1, entry, project, next)))

Leak(cd) ==
    IF cd.opened /\ ~cd.closed THEN 1 ELSE 0

RECURSIVE WorkspacesFold(_, _, _, _, _)
(* cursor.py 59-80: the filter and the sessions of one workspace's store *)
ScanStore(entries, i, filter, sessions, leaked, project) ==
    IF filter.some /\ Len(filter.s) > 0 /\ project # filter.s
    THEN WorkspacesFold(entries, i + 1, filter, sessions, leaked)
    ELSE With(GetChatData(entries[i].store),
              LAMBDA cd :
                  IF cd.exc # "none"
                  THEN [exc |-> cd.exc, val |-> <<>>, leaked |-> leaked + Leak(cd)]
                  ELSE With(SessionsFold(cd.val, 1, entries[i], project, sessions),
                            LAMBDA r :
                                IF r.exc # "none"
                                THEN [exc |-> r.exc, val |-> <<>>,
                                      leaked |-> leaked + Leak(cd)]
                                ELSE WorkspacesFold(entries, i + 1, filter, r.val,
                                                    leaked + Leak(cd))))

(* cursor.py 46-80: the loop over the storage root's entries *)
WorkspacesFold(entries, i, filter, sessions, leaked) ==
    IF i > Len(entries)
    THEN [exc |-> "none", val |-> sessions, leaked |-> leaked]
    ELSE IF ~entries[i].isdir \/ entries[i].store.state = "absent"
    THEN WorkspacesFold(entries, i + 1, filter, sessions, leaked)
    ELSE With(GetWorkspaceFolder(entries[i]),
              LAMBDA folder :
                  IF folder.exc # "none"
                  THEN [exc |-> folder.exc, val |-> <<>>, leaked |-> leaked]
                  ELSE ScanStore(entries, i, filter, sessions, leaked,
                                 IF Truthy(folder.val) THEN folder.val.s
                                 ELSE entries[i].name))

(* list_sessions *)
ListSessions(st, filter) ==
    CASE st.root = "missing" -> [exc |-> "none", val |-> <<>>, leaked |-> 0]
      [] st.root = "unreadable" -> [exc |-> "OSError", val |-> <<>>, leaked |-> 0]
      [] OTHER -> WorkspacesFold(st.entries, 1, filter, <<>>, 0)

(* CursorAdapter.is_available *)
CursorAvailable(st) ==
    st.root # "missing"

---------------------------------------------------------------------------
(* sources/base.py: the registry *)

(* the other registered adapter's list_sessions: its sessions, restricted   *)
(* to the project when a filter is given                                    *)
ClaudeListSessions(c, filter) ==
    IF filter.some /\ Len(filter.s) > 0
    THEN SelectSeq(c.sessions, LAMBDA x : x.project = filter.s)
    ELSE c.sessions

(* a mutant of GetAllAdapters: every registered class is instantiated *)
GetAllAdapters_Unchecked(st, c) ==
    <<S_claude_code, S_cursor>>

(* get_all_adapters: the names of the adapters instantiated, in order *)
GetAllAdapters(st, c) ==
    (IF c.available THEN <<S_claude_code>> ELSE <<>>)
    \o (IF CursorAvailable(st) THEN <<S_cursor>> ELSE <<>>)

AdapterListSessions(name, st, c, filter) ==
    IF name = S_cursor THEN ListSessions(st, filter)
    ELSE [exc |-> "none", val |-> ClaudeListSessions(c, filter), leaked |-> 0]

RECURSIVE InsertDesc(_, _, _)
(* x put behind every element that is not older than it *)
InsertDesc(sorted, x, i) ==
    IF i > Len(sorted) THEN Append(sorted, x)
    ELSE IF sorted[i].modified < x.modified
    THEN SubSeq(sorted, 1, i - 1) \o <<x>> \o SubSeq(sorted, i, Len(sorted))
    ELSE InsertDesc(sorted, x, i + 1)

RECURSIVE SortFold(_, _, _)
SortFold(sessions, i, sorted) ==
    IF i > Len(sessions) THEN sorted
    ELSE With(InsertDesc(sorted, sessions[i], 1),
              LAMBDA next : SortFold(sessions, i + 1, next))

Reverse(s) ==
    [i \in 1..Len(s) |-> s[Len(s) + 1 - i]]

(* a mutant of SortByModified: reverse=True is left out *)
SortByModified_Ascending(sessions) ==
    Reverse(SortFold(sessions, 1, <<>>))

(* sorted(sessions, key=lambda x: x.modified, reverse=True): a stable sort *)
SortByModified(sessions) ==
    SortFold(sessions, 1, <<>>)

RECURSIVE AdaptersFold(_, _, _, _, _, _, _)
(* base.py 77-79: extend by every adapter's list_sessions *)
AdaptersFold(adapters, i, st, c, filter, sessions, leaked) ==
    IF i > Len(adapters)
    THEN [exc |-> "none", val |-> sessions, leaked |-> leaked,
          called |-> adapters]
    ELSE With(AdapterListSessions(adapters[i], st, c, filter),
              LAMBDA r :
                  IF r.exc # "none"
                  THEN [exc |-> r.exc, val |-> <<>>, leaked |-> leaked + r.leaked,
                        called |-> SubSeq(adapters, 1, i)]
                  ELSE AdaptersFold(adapters, i + 1, st, c, filter,
                                    sessions \o r.val, leaked + r.leaked))

(* list_all_sessions: the sorted sessions or the exception; adapters are    *)
(* the instances made and called the ones whose list_sessions was called    *)
ListAllSessions(st, c, filter) ==
    With(GetAllAdapters(st, c),
         LAMBDA adapters :
             With(AdaptersFold(adapters, 1, st, c, filter, <<>>, 0),
                  LAMBDA r :
                      [exc |-> r.exc,
                       val |-> IF r.exc = "none" THEN SortByModified(r.val) ELSE <<>>,
                       leaked |-> r.leaked, adapters |-> adapters,
                       called |-> r.called]))

---------------------------------------------------------------------------
(* What the stores may hold: records of the three chat formats, well formed *)
(* and malformed                                                             *)

T_hi == <<"h","i">>
T_hello == <<"h","e","l","l","o">>
T_abc == <<"a","b","c">>
T_ls == <<"l","s">>

Msg(role, content) ==
    JDict(<<KV(S_role, role), KV(S_content, content)>>)

Chat(id, messages) ==
    JDict(<<KV(S_id, JStr(id)), KV(S_messages, messages)>>)

ChatNoId(messages) ==
    JDict(<<KV(S_messages, messages)>>)

TextPart(text) ==
    JDict(<<KV(S_type, JStr(S_text)), KV(S_text, JStr(text))>>)

ToolUsePart ==
    JDict(<<KV(S_type, JStr(S_tool_use)), KV(S_name, JStr(T_ls)),
            KV(S_input, JDict(<<>>))>>)

ToolResultPart ==
    JDict(<<KV(S_type, JStr(S_tool_result)), KV(S_content, JStr(T_abc))>>)

ImagePart ==
    JDict(<<KV(S_type, JStr(<<"i","m","a","g","e">>))>>)

HiHello ==
    JList(<<Msg(JStr(S_user), JStr(T_hi)), Msg(JStr(S_assistant), JStr(T_hello))>>)

HiHi ==
    JList(<<Msg(JStr(S_user), JStr(T_hi)), Msg(JStr(S_user), JStr(T_hi))>>)

T_Tool == <<"T","o","o","l">>

OddRoles ==
    JList(<<Msg(JStr(T_Tool), JStr(T_hi)),
            JDict(<<KV(S_content, JStr(T_hello))>>)>>)

(* every supported shape of content in one record *)
MixedMessages ==
    JList(<<Msg(JStr(<<"H","u","m","a","n">>), JList(<<TextPart(T_hi), JStr(T_abc)>>)),
            Msg(JStr(<<"A","I">>),
                JList(<<ToolUsePart, ImagePart, ToolResultPart, TextPart(T_hi)>>)),
            Msg(JStr(S_user), JNum(7)),
            Msg(JStr(S_system), JStr(T_hello)),
            Msg(JStr(S_user), JList(<<ToolUsePart>>))>>)

ChatdataValues ==
    { RawEmpty,
      RawGarbage,
      Enc(JNum(5)),
      Enc(JList(<<Chat(T_abc, HiHello)>>)),
      Enc(JList(<<Chat(S_agent \o <<"1">>, HiHello)>>)),
      Enc(JList(<<ChatNoId(HiHi), JNum(5), ChatNoId(HiHello)>>)),
      Enc(JList(<<Chat(T_abc, MixedMessages)>>)),
      Enc(JDict(<<KV(S_tabs, JList(<<ChatNoId(HiHello)>>))>>)),
      Enc(JDict(<<KV(S_tabs, JNum(5))>>)),
      Enc(JDict(<<KV(S_tabs, JStr(T_abc))>>)),
      \* messages that are not a list
      Enc(JList(<<Chat(T_abc, JStr(T_hi))>>)),
      \* a message that is not a mapping, after one that is
      Enc(JList(<<Chat(T_abc, JList(<<Msg(JStr(S_user), JStr(T_hi)), JStr(T_hi)>>))>>)),
      \* a role that is not a string
      Enc(JList(<<Chat(T_abc, JList(<<Msg(JNum(5), JStr(T_hi))>>))>>)),
      \* a role outside the alias table, and a message without a role
      Enc(JList(<<Chat(T_abc, OddRoles)>>)) }

ComposerValues ==
    { RawGarbage,
      Enc(JList(<<>>)),
      Enc(JDict(<<KV(S_composers,
                     JDict(<<KV(<<"c","1">>, ChatNoId(HiHello))>>))>>)),
      Enc(JDict(<<KV(S_composers,
                     JDict(<<KV(<<"c","1">>, JNum(5)),
                             KV(<<"c","2">>, JDict(<<KV(S_title, JStr(T_abc))>>))>>))>>)),
      Enc(JDict(<<KV(S_composers, JList(<<>>))>>)) }

PromptsValues ==
    { RawGarbage, Enc(JList(<<>>)) }

ValuesOf(key) ==
    CASE key = K_chatdata -> ChatdataValues
      [] key = K_composer -> ComposerValues
      [] OTHER -> PromptsValues

P_proj == <<"/","h","o","m","e","/","u","/","p","r","o","j">>
P_other == <<"/","q">>

Absent == [kind |-> "absent"]
Unreadable == [kind |-> "unreadable"]

Descriptor(folder) ==
    Enc(JDict(<<KV(S_folder, folder)>>))

DescriptorValues ==
    { Absent, Unreadable, RawGarbage,
      Enc(JList(<<>>)),
      Enc(JDict(<<>>)),
      Descriptor(JStr(S_file \o P_proj)),
      Descriptor(JStr(P_other)),
      Descriptor(JStr(S_file)),
      Descriptor(JNum(5)) }

(* "noschema" (a database without ItemTable) is what connect leaves behind *)
StoreStates == {"ok", "absent", "locked", "notdb"}

RootStates == {"ok", "missing", "unreadable"}

W1 == <<"w","1">>
W2 == <<"w","2">>

Row(key, value) == [key |-> key, value |-> value]

Workspace(name, desc, mtime, rows) ==
    [name |-> name, isdir |-> TRUE, desc |-> desc,
     store |-> [state |-> "ok", mtime |-> mtime, size |-> Len(rows), rows |-> rows]]

StrayFile ==
    [name |-> <<"x">>, isdir |-> FALSE, desc |-> Absent, store |-> NoStore]

(* two workspaces with one store each, and a file that is no workspace *)
Baseline ==
    [root |-> "ok",
     entries |->
        << Workspace(W1, Descriptor(JStr(S_file \o P_proj)), 1,
                     <<Row(K_chatdata, Enc(JList(<<Chat(T_abc, HiHello)>>)))>>),
           StrayFile,
           Workspace(W2, Absent, 2,
                     <<Row(K_chatdata,
                           Enc(JDict(<<KV(S_tabs, JList(<<ChatNoId(HiHi)>>))>>))),
                       Row(K_composer,
                           Enc(JDict(<<KV(S_composers,
                               JDict(<<KV(<<"c","1">>, ChatNoId(HiHello))>>))>>)))>>) >>]

Workspaces == {1, 3}

(* the workspace the application is working in: its descriptor and its      *)
(* store's keys are rewritten; the other one is only touched or locked      *)
Active == {1}

NoClaude == [available |-> FALSE, sessions |-> <<>>]

Idle == [op |-> "idle"]

(* no file at a path of afterpaths' own directories *)
NoFile == [kind |-> "absent"]

(* local_analytics.py 136: timedelta(days=90) *)
RetentionDays == 90

(* the first day the clock shows, counted in days *)
Day0 == RetentionDays + 10

(* afterpaths has written nothing yet *)
NoHome ==
    [analytics |-> NoFile, summary |-> NoFile, index |-> <<>>,
     today |-> Day0, recorded |-> <<>>]

NoSession == [some |-> FALSE]

Filters ==
    { NoFilter, Filter(<<>>), Filter(P_proj), Filter(P_other), Filter(W2) }

---------------------------------------------------------------------------
(* The owning application changes the storage under the adapter *)

Changed(st) ==
    /\ faults < MaxFaults
    /\ storage' = st
    /\ faults' = faults + 1
    /\ last' = Idle
    /\ UNCHANGED <<claude, home, held>>

AppWriteDescriptor(i, d) ==
    /\ d # storage.entries[i].desc
    /\ Changed([storage EXCEPT !.entries[i].desc = d])

SetRow(rows, key, value) ==
    IF \E k \in 1..Len(rows) : rows[k].key = key
    THEN [k \in 1..Len(rows) |->
            IF rows[k].key = key THEN Row(key, value) ELSE rows[k]]
    ELSE Append(rows, Row(key, value))

AppWriteKey(i, key, value) ==
    \E rows \in {SetRow(storage.entries[i].store.rows, key, value)} :
        /\ storage.entries[i].store.state = "ok"
        /\ rows # storage.entries[i].store.rows
        /\ Changed([storage EXCEPT !.entries[i].store.rows = rows,
                                   !.entries[i].store.size = Len(rows)])

AppDeleteKey(i, key) ==
    \E rows \in {SelectSeq(storage.entries[i].store.rows, LAMBDA r : r.key # key)} :
        /\ storage.entries[i].store.state = "ok"
        /\ rows # storage.entries[i].store.rows
        /\ Changed([storage EXCEPT !.entries[i].store.rows = rows,
                                   !.entries[i].store.size = Len(rows)])

AppSetStoreState(i, state) ==
    /\ state # storage.entries[i].store.state
    /\ Changed([storage EXCEPT !.entries[i].store.state = state])

AppTouchStore(i, t) ==
    /\ t # storage.entries[i].store.mtime
    /\ Changed([storage EXCEPT !.entries[i].store.mtime = t])

AppSetRoot(root) ==
    /\ root # storage.root
    /\ Changed([storage EXCEPT !.root = root])

---------------------------------------------------------------------------
(* Calls on the Cursor adapter *)

CallListSessions(filter) ==
    \E r \in {ListSessions(storage, filter)} :
        /\ last' = [op |-> "list_sessions", filter |-> filter, exc |-> r.exc,
                    val |-> r.val, leaked |-> r.leaked]
        /\ held' = NoSession
        /\ UNCHANGED <<storage, claude, home, faults>>

(* the caller keeps one SessionInfo of the listing *)
KeepSession(k) ==
    /\ last.op = "list_sessions"
    /\ last.exc = "none"
    /\ k \in 1..Len(last.val)
    /\ held' = [some |-> TRUE, s |-> last.val[k]]
    /\ last' = Idle
    /\ UNCHANGED <<storage, claude, home, faults>>

(* sqlite3.connect on a path that names no file creates an empty database *)
CreatedStore(st, path) ==
    [st EXCEPT !.entries =
        [i \in 1..Len(st.entries) |->
            IF st.entries[i].name = path /\ st.entries[i].isdir
            THEN [st.entries[i] EXCEPT !.store.state = "noschema",
                                       !.store.rows = <<>>, !.store.size = 0]
            ELSE st.entries[i]]]

CallReadSession ==
    /\ held.some
    /\ \E r \in {ReadSession(storage, held.s)} :
           /\ last' = [op |-> "read_session", session |-> held.s, exc |-> r.exc,
                       val |-> r.val, leaked |-> r.leaked]
           /\ storage' = IF r.created THEN CreatedStore(storage, held.s.path)
                         ELSE storage
    /\ UNCHANGED <<claude, home, held, faults>>

(* cli.py _get_adapter_for_session: the first available adapter named as    *)
(* the session's source, a new ClaudeCodeAdapter when there is none         *)
GetAdapterForSession(st, c, session) ==
    With(SelectSeq(GetAllAdapters(st, c), LAMBDA a : a = session.source),
         LAMBDA matching :
             IF Len(matching) > 0 THEN matching[1] ELSE S_claude_code)

(* cli.py _show_raw_transcript on the session show resolved: the adapter    *)
(* looked up and its read_session; what ClaudeCodeAdapter.read_session      *)
(* makes of a session of another source is left open                        *)
CallShowRaw ==
    /\ held.some
    /\ \E adapter \in {GetAdapterForSession(storage, claude, held.s)} :
       \E r \in {ReadSession(storage, held.s)} :
           /\ last' = [op |-> "show_raw", session |-> held.s, adapter |-> adapter,
                       read |-> IF adapter = S_cursor
                                THEN [exc |-> r.exc, val |-> r.val]
                                ELSE [exc |-> "open", val |-> <<>>]]
           /\ storage' = IF adapter = S_cursor /\ r.created
                         THEN CreatedStore(storage, held.s.path)
                         ELSE storage
    /\ UNCHANGED <<claude, home, held, faults>>

CallGetChatData(i) ==
    /\ storage.root = "ok"
    /\ storage.entries[i].store.state = "ok"
    /\ \E r \in {GetChatData(storage.entries[i].store)} :
           last' = [op |-> "_get_chat_data", path |-> storage.entries[i].name,
                    exc |-> r.exc, val |-> r.val]
    /\ held' = NoSession
    /\ UNCHANGED <<storage, claude, home, faults>>

Init ==
    /\ storage = Baseline
    /\ claude = NoClaude
    /\ last = Idle
    /\ held = NoSession
    /\ faults = 0
    /\ home = NoHome

Next ==
    \/ \E i \in Active, d \in DescriptorValues : AppWriteDescriptor(i, d)
    \/ \E i \in Active, key \in KnownKeys :
          \E value \in ValuesOf(key) : AppWriteKey(i, key, value)
    \/ \E i \in Active, key \in KnownKeys : AppDeleteKey(i, key)
    \/ \E i \in Workspaces, state \in StoreStates : AppSetStoreState(i, state)
    \/ \E i \in Workspaces, t \in 1..MaxMTime : AppTouchStore(i, t)
    \/ \E root \in RootStates : AppSetRoot(root)
    \/ \E filter \in Filters : CallListSessions(filter)
    \/ \E k \in 1..4 : KeepSession(k)
    \/ CallReadSession
    \/ CallShowRaw
    \/ \E i \in Workspaces : CallGetChatData(i)

Spec == Init /\ [][Next]_vars

---------------------------------------------------------------------------
(* The registry over both adapters *)

ClaudeSession(id, project, modified) ==
    SessionInfo(JStr(id), S_claude_code, project, <<"c">>, modified, 1, JNull)

T_agent1 == S_agent \o <<"1">>
T_agentx == <<"a","g","e","n","t","x">>

ClaudePool ==
    { ClaudeSession(T_agent1, P_other, m) : m \in 0..MaxMTime }
    \cup { ClaudeSession(T_abc, P_proj, m) : m \in 0..MaxMTime }
    \cup { ClaudeSession(T_agentx, P_proj, 0) }

RECURSIVE SeqsUpTo(_, _)
(* the sequences over S of length at most n *)
SeqsUpTo(S, n) ==
    IF n = 0 THEN {<<>>}
    ELSE With(SeqsUpTo(S, n - 1),
              LAMBDA shorter : shorter \cup {Append(q, x) : q \in shorter, x \in S})

RegistryStorages ==
    { [Baseline EXCEPT !.root = root,
                       !.entries[1].store.rows = <<Row(K_chatdata, Enc(JList(<<chat>>)))>>] :
        root \in {"ok", "missing"},
        chat \in {Chat(T_abc, HiHello), Chat(T_agent1, HiHello)} }

InitRegistry ==
    /\ storage \in RegistryStorages
    /\ claude \in [available : BOOLEAN, sessions : SeqsUpTo(ClaudePool, MaxClaude)]
    /\ last = Idle
    /\ held = NoSession
    /\ faults = 0
    /\ home = NoHome

CallGetAllAdapters ==
    /\ last' = [op |-> "get_all_adapters", adapters |-> GetAllAdapters(storage, claude)]
    /\ UNCHANGED <<storage, claude, home, held, faults>>

CallListAllSessions(filter) ==
    /\ \E r \in {ListAllSessions(storage, claude, filter)} :
           last' = [op |-> "list_all_sessions", filter |-> filter, exc |-> r.exc,
                    val |-> r.val, adapters |-> r.adapters, called |-> r.called,
                    leaked |-> r.leaked]
    /\ UNCHANGED <<storage, claude, home, held, faults>>

CallSessionType(k) ==
    /\ last.op = "list_all_sessions"
    /\ last.exc = "none"
    /\ k \in 1..Len(last.val)
    /\ last' = [op |-> "session_type", session |-> last.val[k],
                val |-> session_type(last.val[k])]
    /\ UNCHANGED <<storage, claude, home, held, faults>>

NextRegistry ==
    \/ CallGetAllAdapters
    \/ \E filter \in {NoFilter, Filter(P_proj)} : CallListAllSessions(filter)
    \/ \E k \in 1..(MaxClaude + 3) : CallSessionType(k)

SpecRegistry == InitRegistry /\ [][NextRegistry]_vars

---------------------------------------------------------------------------
(* The command line: log and the commands that take a SESSION_REF *)

(* os.getcwd(): the command line runs in the project directory *)
Cwd == P_proj

(* base.py get_sessions_for_cwd *)
GetSessionsForCwd(st, c) ==
    ListAllSessions(st, c, Filter(Cwd)).val

(* cli.py: sessions = [s for s in sessions if s.session_type == session_type] *)
OfType(sessions, type) ==
    IF type = "all" THEN sessions
    ELSE SelectSeq(sessions, LAMBDA x : session_type(x) = type)

LogLimit == 10

SessionTypes == {"main", "agent", "all"}

(* cli.py log: the sessions printed, the one at place i as entry [i] *)
Log(st, c, show_all, type, limit) ==
    With(IF show_all THEN ListAllSessions(st, c, NoFilter).val
         ELSE GetSessionsForCwd(st, c),
         LAMBDA sessions : TakeFirst(OfType(sessions, type), limit))

(* cli.py show and path: the session a numeric SESSION_REF resolves to *)
ResolveNumber(st, c, type, idx) ==
    With(GetSessionsForCwd(st, c),
         LAMBDA here :
             With(OfType(IF Len(here) > 0 THEN here
                         ELSE ListAllSessions(st, c, NoFilter).val, type),
                  LAMBDA sessions :
                      IF 1 <= idx /\ idx <= Len(sessions)
                      THEN [some |-> TRUE, s |-> sessions[idx]]
                      ELSE NoSession))

CallLog(show_all, type) ==
    /\ last' = [op |-> "log", show_all |-> show_all, type |-> type,
                printed |-> Log(storage, claude, show_all, type, LogLimit)]
    /\ UNCHANGED <<storage, claude, home, held, faults>>

CallResolve(command, type, idx) ==
    /\ last' = [op |-> command, type |-> type, ref |-> idx,
                session |-> ResolveNumber(storage, claude, type, idx)]
    /\ UNCHANGED <<storage, claude, home, held, faults>>

(* cli.py show 116-136 and summarize 238-251: the session a SESSION_REF    *)
(* string resolves to; searched is the list the prefix is looked up in      *)
Searched(st, c, command) ==
    With(GetSessionsForCwd(st, c),
         LAMBDA here :
             IF command = "show" /\ Len(here) > 0 THEN here
             ELSE ListAllSessions(st, c, NoFilter).val)

FirstWithPrefix(sessions, ref) ==
    IF \E i \in 1..Len(sessions) : StartsWith(sessions[i].session_id.s, ref)
    THEN [some |-> TRUE,
          s |-> sessions[CHOOSE i \in 1..Len(sessions) :
                    /\ StartsWith(sessions[i].session_id.s, ref)
                    /\ \A k \in 1..(i - 1) :
                           ~StartsWith(sessions[k].session_id.s, ref)]]
    ELSE NoSession

ResolveRef(st, c, command, type, ref) ==
    With(GetSessionsForCwd(st, c),
         LAMBDA here :
             With(IF Len(here) > 0 THEN here
                  ELSE ListAllSessions(st, c, NoFilter).val,
                  LAMBDA found :
                      IF command = "show" /\ Len(found) = 0 THEN NoSession
                      ELSE With(PyInt(ref),
                                LAMBDA n :
                                    IF n.exc = "none"
                                    THEN IF 1 <= n.val /\ n.val <= Len(OfType(found, type))
                                         THEN [some |-> TRUE,
                                               s |-> OfType(found, type)[n.val]]
                                         ELSE NoSession
                                    ELSE FirstWithPrefix(Searched(st, c, command),
                                                         ref))))

CallResolveRef(command, type, ref) ==
    /\ last' = [op |-> "resolve_ref", command |-> command, type |-> type,
                ref |-> ref,
                session |-> ResolveRef(storage, claude, command, type, ref)]
    /\ UNCHANGED <<storage, claude, home, held, faults>>

T_12a == <<"1","2","a">>

(* the Claude Code sessions of the command-line runs: session ids are      *)
(* UUIDs, which may begin with digits                                       *)
CliPool ==
    ClaudePool \cup {ClaudeSession(T_12a, P_proj, 1)}

(* the SESSION_REF strings given on the command line *)
RefStrings ==
    {<<"1">>, <<"1","2">>, T_12a, <<"a">>, <<"a","b">>, <<"z">>, <<>>}

(* the sessions of both sources that a command finds on the machine *)
InitCli ==
    /\ storage \in RegistryStorages
    /\ claude \in [available : BOOLEAN, sessions : SeqsUpTo(CliPool, 1)]
    /\ last = Idle
    /\ held = NoSession
    /\ faults = 0
    /\ home = NoHome

MaxRef == 4

NextCli ==
    \/ \E show_all \in BOOLEAN, type \in SessionTypes : CallLog(show_all, type)
    \/ \E command \in {"show", "path"}, type \in SessionTypes :
          \E idx \in 1..MaxRef : CallResolve(command, type, idx)
    \/ \E command \in {"show", "summarize"}, type \in SessionTypes :
          \E ref \in RefStrings : CallResolveRef(command, type, ref)

SpecCli == InitCli /\ [][NextCli]_vars

---------------------------------------------------------------------------
(* The command line: summarize.  home.summary is the file                   *)
(* summaries/<session id>.md of the session the command resolves and        *)
(* home.index the session index of the project's .afterpaths directory     *)

MaxUpdates == 2

TextFile(text) == [kind |-> "text", text |-> text]

(* summarize.py summarize_session and update_summary are not part of the    *)
(* sources at hand: a fresh summary is one paragraph, a refined one the     *)
(* existing text and one more; either may raise                             *)
SummarizeSession(entries) == <<"summary">>

UpdateSummary(entries, existing) == Append(existing, "refined")

(* storage.py add_session_to_index is not part of the sources at hand: the  *)
(* index holds one entry per session id                                     *)
AddSessionToIndex(index, session) ==
    IF \E i \in 1..Len(index) : index[i] = session.session_id THEN index
    ELSE Append(index, session.session_id)

(* a mutant of KeepsExisting: the summary is generated whatever exists *)
KeepsExisting_Never(existing, force, update_mode) ==
    FALSE

(* cli.py 263-276: an existing summary and neither flag: the command returns *)
KeepsExisting(existing, force, update_mode) ==
    existing.kind # "absent" /\ ~update_mode /\ ~force

(* cli.py 289-290: `update_mode and existing_summary`, the text being falsy  *)
(* when the file is absent (None) or empty                                  *)
Refines(existing, update_mode) ==
    update_mode /\ existing.kind # "absent" /\ Len(existing.text) > 0

(* cli.py summarize 236-321 on the session found, outcome being what the    *)
(* summarizer does: the files afterwards and what was called                *)
Summarize(h, st, session, force, update_mode, outcome) ==
    IF KeepsExisting(h.summary, force, update_mode)
    THEN [home |-> h, called |-> "none", exc |-> "none", failed |-> FALSE]
    ELSE With(ReadSession(st, session),
              LAMBDA r :
                  IF r.exc # "none"
                  THEN [home |-> h, called |-> "none", exc |-> r.exc,
                        failed |-> FALSE]
                  ELSE With(IF Refines(h.summary, update_mode)
                            THEN "update_summary" ELSE "summarize_session",
                            LAMBDA called :
                                IF outcome # "returns"
                                THEN [home |-> h, called |-> called,
                                      exc |-> "none", failed |-> TRUE]
                                ELSE [home |->
                                          [h EXCEPT
                                              !.summary =
                                                  TextFile(
                                                      IF called = "update_summary"
                                                      THEN UpdateSummary(r.val, h.summary.text)
                                                      ELSE SummarizeSession(r.val)),
                                              !.index = AddSessionToIndex(h.index, session)],
                                      called |-> called, exc |-> "none",
                                      failed |-> FALSE]))

SummarizerOutcomes == {"returns", "ImportError", "ValueError", "Exception"}

CallSummarize(ref, type, force, update_mode, outcome) ==
    /\ IF home.summary.kind = "absent" THEN TRUE
       ELSE Len(home.summary.text) <= MaxUpdates
    /\ \E session \in {ResolveRef(storage, claude, "summarize", type, ref)} :
           IF ~session.some
           THEN /\ last' = [op |-> "summarize", session |-> session, force |-> force,
                            update_mode |-> update_mode, before |-> home,
                            called |-> "none", exc |-> "none", failed |-> FALSE]
                /\ home' = home
           ELSE \E r \in {Summarize(home, storage, session.s, force, update_mode,
                                    outcome)} :
                    /\ last' = [op |-> "summarize", session |-> session,
                                force |-> force, update_mode |-> update_mode,
                                before |-> home, called |-> r.called,
                                exc |-> r.exc, failed |-> r.failed]
                    /\ home' = r.home
    /\ UNCHANGED <<storage, claude, held, faults>>

(* the summary file is the user's to delete or to empty *)
UserSetsSummary(file) ==
    /\ home.summary # file
    /\ home' = [home EXCEPT !.summary = file]
    /\ last' = [op |-> "user_sets_summary"]
    /\ UNCHANGED <<storage, claude, held, faults>>

SummarizeStorages ==
    { [Baseline EXCEPT !.entries[1].store.rows =
                           <<Row(K_chatdata, Enc(JList(<<Chat(id, messages)>>)))>>] :
        id \in {T_abc, T_agent1},
        messages \in {HiHello, JList(<<Msg(JNum(5), JStr(T_hi))>>)} }

InitSummarize ==
    /\ storage \in SummarizeStorages
    /\ claude = NoClaude
    /\ last = Idle
    /\ held = NoSession
    /\ faults = 0
    /\ home = NoHome

NextSummarize ==
    \/ \E ref \in {<<"1">>, <<"a">>, <<"z">>}, type \in {"main", "agent"},
          force \in BOOLEAN, update_mode \in BOOLEAN,
          outcome \in SummarizerOutcomes :
              CallSummarize(ref, type, force, update_mode, outcome)
    \/ \E file \in {NoFile, TextFile(<<>>)} : UserSetsSummary(file)

SpecSummarize == InitSummarize /\ [][NextSummarize]_vars

---------------------------------------------------------------------------
(* Local analytics (local_analytics.py).  A date is the number of its day:  *)
(* the code holds dates as "%Y-%m-%d" strings and compares those, which     *)
(* order as the days do.  home.analytics is ~/.afterpaths/analytics.json,   *)
(* home.today the day datetime.now() falls on, and home.recorded remembers, *)
(* for every date record_daily_snapshot was ever called with, the snapshot  *)
(* of the latest call.                                                      *)

MaxDays == 1
MaxTotal == 6

Models == {"m"}

(* DailySnapshot.to_dict of a day with n sessions *)
Snapshot(date, n) ==
    [date |-> date, sessions |-> n, messages |-> 2 * n, tool_calls |-> n,
     rejections |-> n - 1, failures |-> 1,
     model_stats |-> [m \in Models |->
                         [tool_calls |-> n, rejections |-> n - 1, failures |-> 1]],
     ides_used |-> {S_cursor}, stacks_used |-> {}, projects_active |-> 1]

NoDate == 0

(* lifetime = {}: every lifetime.get(key, 0) of a key not yet set *)
EmptyLifetime ==
    [total_sessions |-> 0, total_messages |-> 0, total_tool_calls |-> 0,
     total_rejections |-> 0, total_failures |-> 0, total_days_active |-> 0,
     first_recorded |-> NoDate, last_recorded |-> NoDate,
     model_stats |-> <<>>, ides_used |-> {}, stacks_used |-> {}]

JsonFile(data) == [kind |-> "json", data |-> data]

(* load_analytics *)
LoadAnalytics(file) ==
    IF file.kind = "json" THEN file.data
    ELSE [version |-> 1, snapshots |-> <<>>, lifetime |-> EmptyLifetime]

(* local_analytics.py 163-169: the per-model counts *)
UpdateModelStats(model_stats, snapshot, multiplier) ==
    [m \in DOMAIN model_stats \cup DOMAIN snapshot.model_stats |->
        LET was == IF m \in DOMAIN model_stats THEN model_stats[m]
                   ELSE [tool_calls |-> 0, rejections |-> 0, failures |-> 0]
        IN  IF m \in DOMAIN snapshot.model_stats
            THEN [tool_calls |-> was.tool_calls
                                   + snapshot.model_stats[m].tool_calls * multiplier,
                  rejections |-> was.rejections
                                   + snapshot.model_stats[m].rejections * multiplier,
                  failures |-> was.failures
                                   + snapshot.model_stats[m].failures * multiplier]
            ELSE was]

(* _update_lifetime_stats: data with its lifetime brought up to date; the   *)
(* days are counted from data's snapshots as they are at the call           *)
UpdateLifetimeStats(data, snapshot, subtract) ==
    LET lifetime == data.lifetime
        multiplier == IF subtract THEN 0 - 1 ELSE 1
        totals ==
            [lifetime EXCEPT
                !.total_sessions = @ + snapshot.sessions * multiplier,
                !.total_messages = @ + snapshot.messages * multiplier,
                !.total_tool_calls = @ + snapshot.tool_calls * multiplier,
                !.total_rejections = @ + snapshot.rejections * multiplier,
                !.total_failures = @ + snapshot.failures * multiplier,
                !.model_stats = UpdateModelStats(@, snapshot, multiplier)]
    IN  [data EXCEPT !.lifetime =
            IF subtract THEN totals
            ELSE [totals EXCEPT
                    !.first_recorded =
                        IF @ = NoDate \/ snapshot.date < @ THEN snapshot.date ELSE @,
                    !.last_recorded =
                        IF @ = NoDate \/ snapshot.date > @ THEN snapshot.date ELSE @,
                    !.ides_used = @ \cup snapshot.ides_used,
                    !.stacks_used = @ \cup snapshot.stacks_used,
                    !.total_days_active = Len(data.snapshots) + 1]]

(* a mutant of ExistingIdx: no stored snapshot is ever found *)
ExistingIdx_None(snapshots, date) ==
    0

(* local_analytics.py 112-117: the first place holding the date, 0 for None *)
ExistingIdx(snapshots, date) ==
    IF \E i \in 1..Len(snapshots) : snapshots[i].date = date
    THEN CHOOSE i \in 1..Len(snapshots) :
             /\ snapshots[i].date = date
             /\ \A k \in 1..(i - 1) : snapshots[k].date # date
    ELSE 0

RECURSIVE InsertByDate(_, _, _)
(* x put behind every element that is not later than it *)
InsertByDate(sorted, x, i) ==
    IF i > Len(sorted) THEN Append(sorted, x)
    ELSE IF x.date < sorted[i].date
    THEN SubSeq(sorted, 1, i - 1) \o <<x>> \o SubSeq(sorted, i, Len(sorted))
    ELSE InsertByDate(sorted, x, i + 1)

RECURSIVE SortByDateFold(_, _, _)
SortByDateFold(snapshots, i, sorted) ==
    IF i > Len(snapshots) THEN sorted
    ELSE With(InsertByDate(sorted, snapshots[i], 1),
              LAMBDA next : SortByDateFold(snapshots, i + 1, next))

(* a mutant of SortByDate: the list is left in the order of insertion *)
SortByDate_Unsorted(snapshots) ==
    snapshots

(* snapshots.sort(key=lambda x: x.get("date", "")): a stable sort *)
SortByDate(snapshots) ==
    SortByDateFold(snapshots, 1, <<>>)

(* local_analytics.py 136 *)
Cutoff(today) == today - RetentionDays

(* record_daily_snapshot: the data saved.  The list found in data is the    *)
(* one the snapshot is put into, so _update_lifetime_stats already sees it  *)
(* there.                                                                   *)
RecordDailySnapshot(file, snapshot, today) ==
    With(LoadAnalytics(file),
         LAMBDA data :
             With(ExistingIdx(data.snapshots, snapshot.date),
                  LAMBDA existing_idx :
                      With(IF existing_idx # 0
                           THEN UpdateLifetimeStats(
                                    UpdateLifetimeStats(
                                        [data EXCEPT !.snapshots[existing_idx] = snapshot],
                                        data.snapshots[existing_idx], TRUE),
                                    snapshot, FALSE)
                           ELSE UpdateLifetimeStats(
                                    [data EXCEPT !.snapshots = Append(@, snapshot)],
                                    snapshot, FALSE),
                           LAMBDA updated :
                               JsonFile([updated EXCEPT !.snapshots =
                                   SelectSeq(SortByDate(@),
                                             LAMBDA x : x.date >= Cutoff(today))]))))

(* what home.recorded remembers after a call with the snapshot *)
Remember(recorded, snapshot) ==
    [d \in DOMAIN recorded \cup {snapshot.date} |->
        IF d = snapshot.date THEN snapshot ELSE recorded[d]]

CallRecordDailySnapshot(snapshot) ==
    /\ LoadAnalytics(home.analytics).lifetime.total_sessions <= MaxTotal
    /\ home' = [home EXCEPT
                    !.analytics = RecordDailySnapshot(@, snapshot, home.today),
                    !.recorded = Remember(@, snapshot)]
    /\ last' = [op |-> "record_daily_snapshot", snapshot |-> snapshot,
                before |-> home]
    /\ UNCHANGED <<storage, claude, held, faults>>

(* midnight passes *)
NextDay ==
    /\ home.today < Day0 + MaxDays
    /\ home' = [home EXCEPT !.today = @ + 1]
    /\ last' = [op |-> "next_day"]
    /\ UNCHANGED <<storage, claude, held, faults>>

(* the dates snapshots are recorded for: today, yesterday, the day of the   *)
(* first cutoff and the day before it                                       *)
RecordDates == {Day0, Day0 - 1, Cutoff(Day0), Cutoff(Day0) - 1}

InitRecord ==
    /\ storage = Baseline
    /\ claude = NoClaude
    /\ last = Idle
    /\ held = NoSession
    /\ faults = 0
    /\ home = NoHome

NextRecord ==
    \/ \E date \in RecordDates, n \in 1..2 : CallRecordDailySnapshot(Snapshot(date, n))
    \/ NextDay

SpecRecord == InitRecord /\ [][NextRecord]_vars

---------------------------------------------------------------------------
(* Local analytics: the snapshots collected from the adapters' sessions.    *)
(* A session's modified time is the number of its day here.                 *)

(* SessionInfo.session_type of an id the store gave: str.startswith on an   *)
(* id that is no string raises                                              *)
PySessionType(s) ==
    IF IsStr(s.session_id) THEN Returned(session_type(s))
    ELSE Raised("AttributeError")

S_gone == <<"g","o","n","e">>

(* ClaudeCodeAdapter.read_session is not part of the sources at hand: it    *)
(* returns the entries of the session's file and raises when the file is    *)
(* gone                                                                     *)
ClaudeReadSession(session) ==
    IF session.path = S_gone THEN Raised("OSError")
    ELSE Returned(<<SessionEntry(S_user, T_hi, JNull, JNull, JNull, <<1, 0>>),
                    SessionEntry(S_assistant, T_hello, JNull, JNull, JNull, <<2, 0>>)>>)

AdapterReadSession(name, st, session) ==
    IF name = S_cursor THEN ReadSession(st, session)
    ELSE ClaudeReadSession(session)

(* local_analytics.py 302-304 *)
MessageCount(entries) ==
    Len(SelectSeq(entries, LAMBDA e : e.role \in {S_user, S_assistant}))

(* _get_ide_display_name *)
IdeDisplayName(name) ==
    IF name = S_claude_code THEN <<"C","l","a","u","d","e"," ","C","o","d","e">>
    ELSE IF name = S_cursor THEN <<"C","u","r","s","o","r">>
    ELSE name

(* DailySnapshot(date=...): analytics.detect_llm_errors is not part of the  *)
(* sources at hand and is taken to find no tool errors; the project has no  *)
(* manifest for detect_stack to find                                        *)
NewSnapshot(date) ==
    [date |-> date, sessions |-> 0, messages |-> 0, tool_calls |-> 0,
     rejections |-> 0, failures |-> 0, model_stats |-> <<>>,
     ides_used |-> {}, stacks_used |-> {}, projects |-> {}]

(* local_analytics.py 294-325 and 410-432: one session put into a snapshot *)
CountSession(snapshot, name, st, session) ==
    With([snapshot EXCEPT
             !.ides_used = @ \cup {IdeDisplayName(name)},
             !.projects = IF Len(session.project) > 0 THEN @ \cup {session.project}
                          ELSE @],
         LAMBDA seen :
             With(AdapterReadSession(name, st, session),
                  LAMBDA r :
                      IF r.exc # "none" THEN seen
                      ELSE [seen EXCEPT !.messages = @ + MessageCount(r.val),
                                        !.sessions = @ + 1]))

(* snapshot.projects_active = len(projects_seen) *)
Finished(snapshot) ==
    [date |-> snapshot.date, sessions |-> snapshot.sessions,
     messages |-> snapshot.messages, tool_calls |-> snapshot.tool_calls,
     rejections |-> snapshot.rejections, failures |-> snapshot.failures,
     model_stats |-> snapshot.model_stats, ides_used |-> snapshot.ides_used,
     stacks_used |-> snapshot.stacks_used,
     projects_active |-> Cardinality(snapshot.projects)]

RECURSIVE TodaySessionsFold(_, _, _, _, _, _)
(* local_analytics.py 285-325: an exception outside the inner try ends the  *)
(* adapter's loop                                                           *)
TodaySessionsFold(sessions, i, name, st, today, snapshot) ==
    IF i > Len(sessions) THEN snapshot
    ELSE IF sessions[i].modified < today
    THEN TodaySessionsFold(sessions, i + 1, name, st, today, snapshot)
    ELSE With(PySessionType(sessions[i]),
              LAMBDA type :
                  IF type.exc # "none" THEN snapshot
                  ELSE IF type.val # "main"
                  THEN TodaySessionsFold(sessions, i + 1, name, st, today, snapshot)
                  ELSE With(CountSession(snapshot, name, st, sessions[i]),
                            LAMBDA next :
                                TodaySessionsFold(sessions, i + 1, name, st, today,
                                                  next)))

RECURSIVE TodayAdaptersFold(_, _, _, _, _, _)
(* local_analytics.py 282-327 *)
TodayAdaptersFold(adapters, i, st, c, today, snapshot) ==
    IF i > Len(adapters) THEN snapshot
    ELSE With(AdapterListSessions(adapters[i], st, c, NoFilter),
              LAMBDA r :
                  With(IF r.exc # "none" THEN snapshot
                       ELSE TodaySessionsFold(r.val, 1, adapters[i], st, today,
                                              snapshot),
                       LAMBDA next :
                           TodayAdaptersFold(adapters, i + 1, st, c, today, next)))

(* collect_and_record_today: the analytics file afterwards and the          *)
(* snapshot returned                                                        *)
CollectAndRecordToday(h, st, c) ==
    With(Finished(TodayAdaptersFold(GetAllAdapters(st, c), 1, st, c, h.today,
                                    NewSnapshot(h.today))),
         LAMBDA snapshot :
             IF snapshot.sessions > 0
             THEN [home |-> [h EXCEPT
                                !.analytics = RecordDailySnapshot(@, snapshot, h.today),
                                !.recorded = Remember(@, snapshot)],
                   returned |-> [some |-> TRUE, snapshot |-> snapshot]]
             ELSE [home |-> h, returned |-> [some |-> FALSE]])

CallCollectAndRecordToday ==
    /\ \E r \in {CollectAndRecordToday(home, storage, claude)} :
           /\ home' = r.home
           /\ last' = [op |-> "collect_and_record_today", returned |-> r.returned,
                       before |-> home]
    /\ UNCHANGED <<storage, claude, held, faults>>

RECURSIVE GroupSessionsFold(_, _, _, _, _)
(* local_analytics.py 379-391: the (adapter, session) pairs by date *)
GroupSessionsFold(sessions, i, name, start_date, by_date) ==
    IF i > Len(sessions) THEN by_date
    ELSE IF sessions[i].modified < start_date
    THEN GroupSessionsFold(sessions, i + 1, name, start_date, by_date)
    ELSE With(PySessionType(sessions[i]),
              LAMBDA type :
                  IF type.exc # "none" THEN by_date
                  ELSE IF type.val # "main"
                  THEN GroupSessionsFold(sessions, i + 1, name, start_date, by_date)
                  ELSE With([d \in DOMAIN by_date \cup {sessions[i].modified} |->
                                IF d = sessions[i].modified
                                THEN Append(IF d \in DOMAIN by_date THEN by_date[d]
                                            ELSE <<>>,
                                            [adapter |-> name, session |-> sessions[i]])
                                ELSE by_date[d]],
                            LAMBDA next :
                                GroupSessionsFold(sessions, i + 1, name, start_date,
                                                  next)))

RECURSIVE GroupAdaptersFold(_, _, _, _, _, _)
(* local_analytics.py 376-393 *)
GroupAdaptersFold(adapters, i, st, c, start_date, by_date) ==
    IF i > Len(adapters) THEN by_date
    ELSE With(AdapterListSessions(adapters[i], st, c, NoFilter),
              LAMBDA r :
                  With(IF r.exc # "none" THEN by_date
                       ELSE GroupSessionsFold(r.val, 1, adapters[i], start_date,
                                              by_date),
                       LAMBDA next :
                           GroupAdaptersFold(adapters, i + 1, st, c, start_date, next)))

RECURSIVE DateSessionsFold(_, _, _, _)
(* local_analytics.py 407-432 *)
DateSessionsFold(pairs, i, st, snapshot) ==
    IF i > Len(pairs) THEN snapshot
    ELSE With(CountSession(snapshot, pairs[i].adapter, st, pairs[i].session),
              LAMBDA next : DateSessionsFold(pairs, i + 1, st, next))

RECURSIVE BackfillDatesFold(_, _, _, _, _, _)
(* local_analytics.py 397-441: the dates in ascending order; done is what   *)
(* was recorded so far                                                      *)
BackfillDatesFold(by_date, dates, existing_dates, st, h, done) ==
    IF dates = {} THEN [home |-> h, returned |-> Len(done), done |-> done]
    ELSE LET d == CHOOSE x \in dates : \A y \in dates : x <= y
         IN  IF d \in existing_dates \/ d = h.today
             THEN BackfillDatesFold(by_date, dates \ {d}, existing_dates, st, h, done)
             ELSE With(Finished(DateSessionsFold(by_date[d], 1, st, NewSnapshot(d))),
                       LAMBDA snapshot :
                           IF snapshot.sessions > 0
                           THEN BackfillDatesFold(
                                    by_date, dates \ {d}, existing_dates, st,
                                    [h EXCEPT
                                        !.analytics =
                                            RecordDailySnapshot(@, snapshot, h.today),
                                        !.recorded = Remember(@, snapshot)],
                                    Append(done, snapshot))
                           ELSE BackfillDatesFold(by_date, dates \ {d},
                                                  existing_dates, st, h, done))

(* backfill_analytics(days): the analytics file afterwards, the number      *)
(* returned and the snapshots recorded                                      *)
BackfillAnalytics(h, st, c, days) ==
    With(GroupAdaptersFold(GetAllAdapters(st, c), 1, st, c, h.today - days, <<>>),
         LAMBDA by_date :
             BackfillDatesFold(
                 by_date, DOMAIN by_date,
                 {LoadAnalytics(h.analytics).snapshots[i].date :
                      i \in 1..Len(LoadAnalytics(h.analytics).snapshots)},
                 st, h, <<>>))

CallBackfillAnalytics(days) ==
    /\ LoadAnalytics(home.analytics).lifetime.total_sessions <= MaxTotal
    /\ \E r \in {BackfillAnalytics(home, storage, claude, days)} :
           /\ home' = r.home
           /\ last' = [op |-> "backfill_analytics", days |-> days,
                       returned |-> r.returned, done |-> r.done, before |-> home]
    /\ UNCHANGED <<storage, claude, held, faults>>

(* backfill_analytics(days=30) *)
DefaultDays == 30

(* the days asked of backfill_analytics: the default and a longer span *)
BackfillDays == {DefaultDays, RetentionDays + 5}

ChatNullId(messages) ==
    JDict(<<KV(S_id, JNull), KV(S_messages, messages)>>)

(* a Cursor workspace used today or yesterday *)
CollectStorages ==
    { [Baseline EXCEPT !.entries[1].store.mtime = mtime,
                       !.entries[1].store.rows =
                           <<Row(K_chatdata, Enc(JList(chats)))>>] :
        mtime \in {Day0, Day0 - 1},
        chats \in { <<Chat(T_abc, HiHello)>>,
                    <<ChatNullId(HiHello), Chat(T_abc, HiHello)>>,
                    <<Chat(T_abc, JList(<<Msg(JNum(5), JStr(T_hi))>>)),
                      Chat(T_agentx, HiHello)>> } }

(* Claude Code sessions of today, of yesterday and of 91 days ago *)
CollectPool ==
    { SessionInfo(JStr(T_abc), S_claude_code, P_proj, <<"c">>, day, 1, JNull) :
        day \in {Day0, Day0 - 1, Day0 - RetentionDays - 1} }
    \cup { SessionInfo(JStr(T_agentx), S_claude_code, P_proj, S_gone, Day0 - 1, 1,
                       JNull),
           SessionInfo(JStr(T_agent1), S_claude_code, P_other, <<"c">>, Day0, 1,
                       JNull) }

InitCollect ==
    /\ storage \in CollectStorages
    /\ claude \in [available : {TRUE}, sessions : SeqsUpTo(CollectPool, 2)]
    /\ last = Idle
    /\ held = NoSession
    /\ faults = 0
    /\ home = NoHome

NextCollect ==
    \/ CallCollectAndRecordToday
    \/ \E days \in BackfillDays : CallBackfillAnalytics(days)
    \/ NextDay

SpecCollect == InitCollect /\ [][NextCollect]_vars

---------------------------------------------------------------------------
(* list_sessions step by step, the owning application writing meanwhile *)

ScanAt(w, k, cd, project, val, leaked) ==
    [op |-> "scanning", filter |-> last.filter, w |-> w, k |-> k, cd |-> cd,
     project |-> project, val |-> val, leaked |-> leaked]

ScanDone(exc, val, leaked) ==
    [op |-> "list_sessions", filter |-> last.filter, exc |-> exc, val |-> val,
     leaked |-> leaked]

(* cursor.py 40-46: the call starts on an existing storage root *)
ScanBegin(filter) ==
    /\ last.op # "scanning"
    /\ storage.root = "ok"
    /\ last' = [op |-> "scanning", filter |-> filter, w |-> 1, k |-> 0, cd |-> <<>>,
                project |-> <<>>, val |-> <<>>, leaked |-> 0]
    /\ held' = NoSession
    /\ UNCHANGED <<storage, claude, home, faults>>

(* cursor.py 46-65: the next entry of the root, up to its chat data *)
ScanWorkspace ==
    /\ last.op = "scanning"
    /\ last.k = 0
    /\ last.w <= Len(storage.entries)
    /\ \E entry \in {storage.entries[last.w]} :
       \E folder \in {GetWorkspaceFolder(entry)} :
       \E cd \in {GetChatData(entry.store)} :
           LET project == IF folder.exc = "none" /\ Truthy(folder.val)
                          THEN folder.val.s ELSE entry.name
               skip == ScanAt(last.w + 1, 0, <<>>, <<>>, last.val, last.leaked)
           IN  last' =
                  IF ~entry.isdir \/ entry.store.state = "absent" THEN skip
                  ELSE IF folder.exc # "none"
                  THEN ScanDone(folder.exc, <<>>, last.leaked)
                  ELSE IF /\ last.filter.some
                          /\ Len(last.filter.s) > 0
                          /\ project # last.filter.s
                  THEN skip
                  ELSE IF cd.exc # "none"
                  THEN ScanDone(cd.exc, <<>>, last.leaked + Leak(cd))
                  ELSE IF Len(cd.val) = 0
                  THEN ScanAt(last.w + 1, 0, <<>>, <<>>, last.val,
                              last.leaked + Leak(cd))
                  ELSE ScanAt(last.w, 1, cd.val, project, last.val,
                              last.leaked + Leak(cd))
    /\ UNCHANGED <<storage, claude, home, held, faults>>

(* cursor.py 67-80: stat of the store file and the SessionInfo of one       *)
(* session of the chat data                                                 *)
ScanSession ==
    /\ last.op = "scanning"
    /\ last.k >= 1
    /\ \E entry \in {storage.entries[last.w]} :
       \E summary \in {ExtractSummary(last.cd[last.k].data)} :
           last' =
              IF entry.store.state = "absent"
              THEN ScanDone("OSError", <<>>, last.leaked)
              ELSE IF summary.exc # "none"
              THEN ScanDone(summary.exc, <<>>, last.leaked)
              ELSE LET val == Append(last.val,
                                 SessionInfo(last.cd[last.k].id, S_cursor, last.project,
                                             entry.name, entry.store.mtime,
                                             entry.store.size, summary.val))
                   IN  IF last.k < Len(last.cd)
                       THEN ScanAt(last.w, last.k + 1, last.cd, last.project, val,
                                   last.leaked)
                       ELSE ScanAt(last.w + 1, 0, <<>>, <<>>, val, last.leaked)
    /\ UNCHANGED <<storage, claude, home, held, faults>>

(* cursor.py 82 *)
ScanReturn ==
    /\ last.op = "scanning"
    /\ last.k = 0
    /\ last.w > Len(storage.entries)
    /\ last' = ScanDone("none", last.val, last.leaked)
    /\ UNCHANGED <<storage, claude, home, held, faults>>

(* the owning application writes a store while a call may be under way *)
Concurrently(st) ==
    /\ faults < MaxFaults
    /\ storage' = st
    /\ faults' = faults + 1
    /\ UNCHANGED <<claude, home, last, held>>

ConcurrentTouch(i, t) ==
    /\ t # storage.entries[i].store.mtime
    /\ Concurrently([storage EXCEPT !.entries[i].store.mtime = t])

ConcurrentWriteKey(i, key, value) ==
    \E rows \in {SetRow(storage.entries[i].store.rows, key, value)} :
        /\ storage.entries[i].store.state = "ok"
        /\ rows # storage.entries[i].store.rows
        /\ Concurrently([storage EXCEPT !.entries[i].store.rows = rows,
                                         !.entries[i].store.size = Len(rows)])

ConcurrentRemove(i) ==
    /\ storage.entries[i].store.state = "ok"
    /\ Concurrently([storage EXCEPT !.entries[i].store.state = "absent"])

ScanFilters == { NoFilter, Filter(P_proj), Filter(W2) }

NextScan ==
    \/ \E filter \in ScanFilters : ScanBegin(filter)
    \/ ScanWorkspace
    \/ ScanSession
    \/ ScanReturn
    \/ \E i \in Workspaces, t \in 1..MaxMTime : ConcurrentTouch(i, t)
    \/ \E i \in Workspaces, key \in KnownKeys :
          \E value \in ValuesOf(key) : ConcurrentWriteKey(i, key, value)
    \/ \E i \in Workspaces : ConcurrentRemove(i)

SpecScan == Init /\ [][NextScan]_vars

---------------------------------------------------------------------------
(* Role normalization over raw roles in every mix of cases *)

UpperChar(c) ==
    IF \E i \in 1..Len(LowerLetters) : LowerLetters[i] = c
    THEN UpperLetters[CHOOSE i \in 1..Len(LowerLetters) : LowerLetters[i] = c]
    ELSE c

(* the word w with any of its letters in upper case *)
CaseVariants(w) ==
    { [i \in 1..Len(w) |-> IF i \in U THEN UpperChar(w[i]) ELSE w[i]] :
        U \in SUBSET (1..Len(w)) }

RawRoles ==
    CaseVariants(S_human) \cup CaseVariants(S_ai) \cup CaseVariants(S_system)
    \cup CaseVariants(S_user)
    \cup { S_assistant, T_Tool, <<>>, <<" ","a","i">>, <<"h","u","m","a","n","s">>,
           <<"A","-","1">>, S_tool_result }

RoleMessages ==
    { Msg(JStr(r), JStr(T_hi)) : r \in RawRoles }
    \cup { JDict(<<KV(S_content, JStr(T_hi))>>) }

InitRole ==
    /\ storage = Baseline
    /\ claude = NoClaude
    /\ last \in { [op |-> "raw", msg |-> m] : m \in RoleMessages }
    /\ held = NoSession
    /\ faults = 0
    /\ home = NoHome

(* cursor.py 95-96 and 137-144 on one message with string content *)
CallMessageRole ==
    /\ last.op = "raw"
    /\ \E r \in {MessageEntries(last.msg, 1, <<>>)} :
           last' = [op |-> "entry", msg |-> last.msg, exc |-> r.exc,
                    role |-> r.val[1].role]
    /\ UNCHANGED <<storage, claude, home, held, faults>>

(* _normalize_role on a role it returned *)
CallNormalizeRole ==
    /\ last.op \in {"entry", "_normalize_role"}
    /\ \E r \in {NormalizeRole(JStr(last.role))} :
           last' = [op |-> "_normalize_role", msg |-> last.msg, arg |-> last.role,
                    exc |-> r.exc, role |-> r.val]
    /\ UNCHANGED <<storage, claude, home, held, faults>>

NextRole ==
    \/ CallMessageRole
    \/ CallNormalizeRole

SpecRole == InitRole /\ [][NextRole]_vars

---------------------------------------------------------------------------
(* Properties *)

Range(q) == {q[i] : i \in 1..Len(q)}

Count(q, x) == Cardinality({i \in 1..Len(q) : q[i] = x})

SameBag(a, b) ==
    /\ Len(a) = Len(b)
    /\ \A x \in Range(a) \cup Range(b) : Count(a, x) = Count(b, x)

ListedNow == ListSessions(storage, NoFilter)

(* C1: a session's type is "agent" exactly when its id starts with          *)
(* "agent-", and "main" otherwise; two sessions with the same id, whatever  *)
(* their source and other fields, have the same type.                       *)
C1_SessionTypeFromPrefix ==
    last.op = "session_type" =>
        LET id == last.session.session_id.s
            hasPrefix == /\ Len(id) >= 6
                         /\ \A i \in 1..6 : id[i] = S_agent[i]
        IN  /\ last.val \in {"agent", "main"}
            /\ (last.val = "agent") <=> hasPrefix
            /\ \A other \in Range(claude.sessions) \cup Range(ListedNow.val) :
                  other.session_id = last.session.session_id
                      => session_type(other) = last.val

(* an agent session of the Cursor store classified while the other adapter  *)
(* holds a session of the same id                                           *)
C1_Witness ==
    /\ last.op = "session_type"
    /\ last.val = "agent"
    /\ last.session.source = S_cursor
    /\ \E other \in Range(claude.sessions) :
          other.session_id = last.session.session_id

(* C2: list_sessions(project_filter=P) returns exactly the sessions of      *)
(* list_sessions() whose project label equals P, for every string P, the    *)
(* empty one included.                                                      *)
C2_FilterIsExactMatch ==
    (/\ last.op = "list_sessions"
     /\ last.filter.some
     /\ last.exc = "none"
     /\ ListedNow.exc = "none")
        => last.val = SelectSeq(ListedNow.val, LAMBDA x : x.project = last.filter.s)

(* C3: list_all_sessions returns the sessions of every available adapter's  *)
(* list_sessions, none dropped and none duplicated, ordered by modified     *)
(* descending.                                                              *)
C3_SortedConcatenation ==
    (last.op = "list_all_sessions" /\ last.exc = "none") =>
        LET expected ==
                (IF claude.available THEN ClaudeListSessions(claude, last.filter)
                 ELSE <<>>)
                \o (IF storage.root # "missing"
                    THEN ListSessions(storage, last.filter).val ELSE <<>>)
        IN  /\ SameBag(last.val, expected)
            /\ \A i \in 1..(Len(last.val) - 1) :
                  last.val[i].modified >= last.val[i + 1].modified

(* sessions of both adapters, one of them listed twice, that the            *)
(* concatenation does not hold in order                                     *)
C3_Witness ==
    /\ last.op = "list_all_sessions"
    /\ last.exc = "none"
    /\ \E i, j \in 1..Len(last.val) :
          /\ last.val[i].source = S_cursor
          /\ last.val[j].source = S_claude_code
    /\ \E i, j \in 1..Len(last.val) : i < j /\ last.val[i] = last.val[j]
    /\ last.val # claude.sessions \o ListedNow.val

OriginBefore(a, b) ==
    \/ a[1] < b[1]
    \/ a[1] = b[1] /\ a[2] < b[2]

(* the raw record a SessionInfo names, as the store holds it *)
RawMessages(session) ==
    Get(DictAt(GetChatData(StoreAt(storage, session.path)).val, session.session_id),
        S_messages, JList(<<>>)).l

Emits(part) ==
    \/ IsStr(part)
    \/ /\ IsDict(part)
       /\ Get(part, S_type, JNull) \in {JStr(S_text), JStr(S_tool_use), JStr(S_tool_result)}

(* the string-content messages and recognized parts of a raw record *)
EmittingPlaces(messages) ==
    { <<m, 0>> : m \in {m \in 1..Len(messages) :
                           IsStr(Get(messages[m], S_content, JStr(<<>>)))} }
    \cup UNION { { <<m, k>> : k \in {k \in 1..Len(Get(messages[m], S_content, JNull).l) :
                                        Emits(Get(messages[m], S_content, JNull).l[k])} } :
                 m \in {m \in 1..Len(messages) :
                           IsList(Get(messages[m], S_content, JStr(<<>>)))} }

(* C4: read_session returns its entries in the order of the messages, and   *)
(* of the parts inside each message, of the raw record: one entry for each  *)
(* string-content message and recognized part, none moved, none merged.     *)
C4_EntriesKeepRawOrder ==
    (last.op = "read_session" /\ last.exc = "none" /\ Len(last.val) > 0) =>
        /\ \A i, j \in 1..Len(last.val) :
              i < j => OriginBefore(last.val[i].origin, last.val[j].origin)
        /\ {last.val[i].origin : i \in 1..Len(last.val)}
              = EmittingPlaces(RawMessages(last.session))

(* a record with every supported shape read: text parts, a bare string, a   *)
(* tool_use and a tool_result part, string contents, and the text "hi"      *)
(* twice                                                                    *)
C4_Witness ==
    /\ last.op = "read_session"
    /\ last.exc = "none"
    /\ Len(last.val) >= 6
    /\ \E i, j \in 1..Len(last.val) :
          /\ i < j
          /\ last.val[i].content = last.val[j].content
          /\ last.val[i].origin[1] < last.val[j].origin[1]
    /\ \E i \in 1..Len(last.val) : last.val[i].role = S_tool_result
    /\ \E i \in 1..Len(last.val) : last.val[i].origin[2] = 0

(* C5: read_session never raises for a SessionInfo whose store now holds    *)
(* corrupted or unexpectedly shaped data; a store that cannot be queried    *)
(* gives the empty list.                                                    *)
C5_ReadNeverRaises ==
    last.op = "read_session" =>
        /\ last.exc = "none"
        /\ StoreAt(storage, last.session.path).state # "ok" => last.val = <<>>

(* C6: list_sessions never raises for an I/O or parse failure of the        *)
(* storage layer; a store that cannot be queried contributes no session.    *)
(* Stated for workspaces whose descriptors resolve without an error, so     *)
(* that only the storage root and the stores can fail.                      *)
C6_ListNeverRaises ==
    (/\ last.op = "list_sessions"
     /\ \A k \in 1..Len(storage.entries) :
           GetWorkspaceFolder(storage.entries[k]).exc = "none") =>
        /\ last.exc = "none"
        /\ \A i \in 1..Len(last.val) :
              StoreAt(storage, last.val[i].path).state = "ok"

(* C7: in a store holding several known keys, a malformed value under one   *)
(* key is skipped on its own: _get_chat_data does not raise and returns     *)
(* the sessions of every key whose value is well formed.                    *)
C7_MalformedKeySkipped ==
    (last.op = "_get_chat_data" /\ Len(StoreAt(storage, last.path).rows) >= 2) =>
        /\ last.exc = "none"
        /\ \A k \in 1..Len(StoreAt(storage, last.path).rows) :
              LET alone == ProcessRow(StoreAt(storage, last.path).rows[k], <<>>)
              IN  alone.exc = "none" =>
                      \A n \in 1..Len(alone.val) : DictHas(last.val, alone.val[n].id)

WithoutDescriptors(st) ==
    [st EXCEPT !.entries =
        [i \in 1..Len(st.entries) |-> [st.entries[i] EXCEPT !.desc = Absent]]]

(* the label the descriptor stands for: its folder without the file://     *)
(* scheme, or the directory's name when no folder can be read from it       *)
DescribedLabel(entry) ==
    IF /\ entry.desc.kind = "json"
       /\ IsDict(entry.desc.j)
       /\ IsStr(Get(entry.desc.j, S_folder, JNull))
    THEN LET folder == Get(entry.desc.j, S_folder, JNull).s
         IN  IF Len(folder) >= 7 /\ SubSeq(folder, 1, 7) = S_file
             THEN SubSeq(folder, 8, Len(folder)) ELSE folder
    ELSE entry.name

(* C8: the project label is the descriptor's folder without its file://     *)
(* scheme, or the directory's name when the descriptor is absent or         *)
(* unparsable, and list_sessions never fails because of the descriptor.     *)
(* Stated for descriptors that can be read: absent, not JSON, or JSON of    *)
(* any shape.                                                               *)
C8_LabelFromDescriptor ==
    (/\ last.op = "list_sessions"
     /\ ~last.filter.some
     /\ \A k \in 1..Len(storage.entries) :
           storage.entries[k].desc.kind # "unreadable") =>
        /\ last.exc # "none" =>
              ListSessions(WithoutDescriptors(storage), NoFilter).exc # "none"
        /\ \A i \in 1..Len(last.val) :
              \A k \in 1..Len(storage.entries) :
                  storage.entries[k].name = last.val[i].path
                      => last.val[i].project = DescribedLabel(storage.entries[k])

Registry == <<S_claude_code, S_cursor>>

IsAvailable(name) ==
    IF name = S_cursor THEN storage.root # "missing" ELSE claude.available

(* C9: an adapter whose is_available() is false is not instantiated, its    *)
(* list_sessions is not called, no session of it is returned and the call   *)
(* returns; the adapters instantiated are in registry order.                *)
C9_UnavailableAdapterUnused ==
    last.op \in {"get_all_adapters", "list_all_sessions"} =>
        /\ \A n \in 1..Len(Registry) :
              ~IsAvailable(Registry[n]) =>
                  /\ Registry[n] \notin Range(last.adapters)
                  /\ last.op = "list_all_sessions" =>
                        /\ Registry[n] \notin Range(last.called)
                        /\ \A i \in 1..Len(last.val) : last.val[i].source # Registry[n]
                        /\ last.exc = "none"
        /\ last.adapters = SelectSeq(Registry, IsAvailable)

(* the other adapter holds sessions and is unavailable, while the Cursor    *)
(* adapter's sessions are listed                                            *)
C9_Witness ==
    /\ last.op = "list_all_sessions"
    /\ ~claude.available
    /\ Len(claude.sessions) > 0
    /\ Len(last.val) > 0

(* C10: no two SessionInfo of one list_sessions result share a session_id.  *)
C10_SessionIdsUnique ==
    (last.op = "list_sessions" /\ last.exc = "none") =>
        \A i, j \in 1..Len(last.val) :
            i # j => last.val[i].session_id # last.val[j].session_id

Roles == {S_user, S_assistant, S_tool_result}

(* C11: every SessionEntry returned by read_session has a role among user,  *)
(* assistant and tool_result, whatever the raw role in the store.           *)
C11_RolesEnumerated ==
    (last.op = "read_session" /\ last.exc = "none") =>
        \A i \in 1..Len(last.val) : last.val[i].role \in Roles

(* a and b are the same word up to the case of their letters *)
SameWord(a, b) ==
    /\ Len(a) = Len(b)
    /\ \A i \in 1..Len(a) :
          \/ a[i] = b[i]
          \/ \E n \in 1..Len(LowerLetters) :
                {a[i], b[i]} = {LowerLetters[n], UpperLetters[n]}

LowerCased(raw) ==
    [i \in 1..Len(raw) |->
        IF \E n \in 1..Len(UpperLetters) : UpperLetters[n] = raw[i]
        THEN LowerLetters[CHOOSE n \in 1..Len(UpperLetters) : UpperLetters[n] = raw[i]]
        ELSE raw[i]]

(* the role the alias table stands for *)
ExpectedRole(raw) ==
    CASE SameWord(raw, S_human) -> S_user
      [] SameWord(raw, S_ai) -> S_assistant
      [] SameWord(raw, S_system) -> S_user
      [] OTHER -> LowerCased(raw)

(* the role of a raw message: its role field, user when it has none *)
RawRole(msg) ==
    IF HasKey(msg, S_role) THEN Get(msg, S_role, JNull).s ELSE S_user

(* C12: human, ai and system in any mix of cases give user, assistant and   *)
(* user; every other role comes out lower-cased and otherwise unchanged; a  *)
(* message without a role gives user; normalizing a normalized role         *)
(* changes nothing.                                                         *)
C12_RoleNormalization ==
    /\ last.op = "entry" =>
          /\ last.exc = "none"
          /\ last.role = ExpectedRole(RawRole(last.msg))
    /\ last.op = "_normalize_role" =>
          /\ last.exc = "none"
          /\ last.role = last.arg

(* the role of a message written "hUmAn" or alike, normalized to user and   *)
(* normalized again                                                         *)
C12_Witness ==
    /\ last.op = "_normalize_role"
    /\ HasKey(last.msg, S_role)
    /\ SameWord(Get(last.msg, S_role, JNull).s, S_human)
    /\ Get(last.msg, S_role, JNull).s # S_human
    /\ last.arg = S_user
    /\ last.role = S_user

Stringified(j) ==
    IF IsStr(j) THEN j.s ELSE PyRepr(j)

(* the entry the raw record stands for at one place: message m with string  *)
(* content (k = 0), or part k of its list content                           *)
ExpectedEntry(messages, m, k) ==
    LET msg == messages[m]
        role == ExpectedRole(RawRole(msg))
        part == Get(msg, S_content, JNull).l[k]
        type == Get(part, S_type, JNull)
    IN  IF k = 0
        THEN [role |-> role, content |-> Get(msg, S_content, JStr(<<>>)),
              tool_name |-> JNull, tool_input |-> JNull]
        ELSE IF IsStr(part)
        THEN [role |-> role, content |-> part, tool_name |-> JNull, tool_input |-> JNull]
        ELSE CASE type = JStr(S_text) ->
                    [role |-> role, content |-> Get(part, S_text, JStr(<<>>)),
                     tool_name |-> JNull, tool_input |-> JNull]
               [] type = JStr(S_tool_use) ->
                    [role |-> S_assistant,
                     content |-> JStr(<<"[","T","o","o","l",":"," ">>
                                      \o Stringified(Get(part, S_name, JStr(S_unknown)))
                                      \o <<"]">>),
                     tool_name |-> Get(part, S_name, JNull),
                     tool_input |-> Get(part, S_input, JNull)]
               [] type = JStr(S_tool_result) ->
                    [role |-> S_tool_result,
                     content |-> JStr(Stringified(Get(part, S_content, JStr(<<>>)))),
                     tool_name |-> JNull, tool_input |-> JNull]

(* C13: read_session emits exactly one entry for each string-content        *)
(* message and each recognized part: a text or bare string part under the   *)
(* message's normalized role, a tool_use part as an assistant entry         *)
(* "[Tool: <name>]" with tool_name and tool_input, a tool_result part as a  *)
(* tool_result entry of the stringified payload; nothing for anything       *)
(* else.  The chat "abc" of user "hi", assistant "hello" gives those two.   *)
C13_OneEntryPerPart ==
    (last.op = "read_session" /\ last.exc = "none" /\ Len(last.val) > 0) =>
        LET messages == RawMessages(last.session)
        IN  /\ Len(last.val) = Cardinality(EmittingPlaces(messages))
            /\ \A i \in 1..Len(last.val) :
                  LET e == last.val[i]
                      x == ExpectedEntry(messages, e.origin[1], e.origin[2])
                  IN  /\ e.origin \in EmittingPlaces(messages)
                      /\ \A j \in 1..Len(last.val) : j # i => last.val[j].origin # e.origin
                      /\ e.role = x.role
                      /\ e.content = x.content
                      /\ e.tool_name = x.tool_name
                      /\ e.tool_input = x.tool_input
            /\ messages = HiHello.l =>
                  [i \in 1..Len(last.val) |-> <<last.val[i].role, last.val[i].content>>]
                      = << <<S_user, JStr(T_hi)>>, <<S_assistant, JStr(T_hello)>> >>

(* a record read whose entries hold a tool_use of a user message, a         *)
(* tool_result, a text part and a bare string, some part having emitted     *)
(* nothing                                                                  *)
C13_Witness ==
    /\ last.op = "read_session"
    /\ last.exc = "none"
    /\ \E i \in 1..Len(last.val) :
          /\ last.val[i].tool_name = JStr(T_ls)
          /\ last.val[i].role = S_assistant
          /\ RawRole(RawMessages(last.session)[last.val[i].origin[1]]) = S_user
    /\ \E i \in 1..Len(last.val) : last.val[i].role = S_tool_result
    /\ \E i, j \in 1..Len(last.val) :
          /\ last.val[i].origin[1] = last.val[j].origin[1]
          /\ last.val[j].origin[2] > last.val[i].origin[2] + 1

(* the store a SessionInfo names no longer holds its id: the store is gone  *)
(* or cannot be queried, or it is queried and the id is not among its       *)
(* sessions                                                                 *)
NoLongerPresent(session) ==
    LET store == StoreAt(storage, session.path)
    IN  \/ store.state # "ok"
        \/ /\ GetChatData(store).exc = "none"
           /\ ~DictHas(GetChatData(store).val, session.session_id)

C15_ConnectionsClosed ==
    last.op \in {"list_sessions", "read_session"} => last.leaked = 0

(* C16: list_sessions and read_session leave the raw storage as it was,     *)
(* for every storage state, a SessionInfo whose store file no longer exists *)
(* included.                                                                *)
C16_CallsLeaveStorageUnchanged ==
    [][last'.op \in {"list_sessions", "read_session"} => storage' = storage]_vars

(* C17: in the result of one list_sessions call, two SessionInfo of the     *)
(* same store file carry the same modified and the same size, also when     *)
(* the owning application writes the file during the call.                  *)
C17_OneStatPerStore ==
    (last.op = "list_sessions" /\ last.exc = "none") =>
        \A i, j \in 1..Len(last.val) :
            last.val[i].path = last.val[j].path =>
                /\ last.val[i].modified = last.val[j].modified
                /\ last.val[i].size = last.val[j].size

(* a call that no write interleaves returns what list_sessions computes in  *)
(* one piece                                                                *)
ScanAgreesWhenQuiet ==
    (last.op = "list_sessions" /\ faults = 0) =>
        /\ last.exc = ListSessions(storage, last.filter).exc
        /\ last.val = ListSessions(storage, last.filter).val
        /\ last.leaked = ListSessions(storage, last.filter).leaked

RECURSIVE WithBodies(_, _)
(* the parsed value with every "content" under it replaced by body *)
WithBodies(j, body) ==
    CASE j.t = "list" -> JList([i \in 1..Len(j.l) |-> WithBodies(j.l[i], body)])
      [] j.t = "dict" ->
            JDict([i \in 1..Len(j.d) |->
                      IF j.d[i].k = S_content THEN KV(S_content, JStr(body))
                      ELSE KV(j.d[i].k, WithBodies(j.d[i].v, body))])
      [] OTHER -> j

(* the storage with the same stores, keys, ids and titles, every message    *)
(* having body for its content                                              *)
SameButBodies(st, body) ==
    [st EXCEPT !.entries =
        [i \in 1..Len(st.entries) |->
            [st.entries[i] EXCEPT !.store.rows =
                [k \in 1..Len(st.entries[i].store.rows) |->
                    LET row == st.entries[i].store.rows[k]
                    IN  IF row.value.kind = "json"
                        THEN Row(row.key, Enc(WithBodies(row.value.j, body)))
                        ELSE row]]]]

(* C18: list_sessions does not depend on message bodies: on a storage that  *)
(* differs only in the content of its messages it returns the same          *)
(* SessionInfo list.                                                        *)
C18_ListingIgnoresBodies ==
    (last.op = "list_sessions" /\ last.exc = "none") =>
        \A body \in {T_hi, T_abc} :
            ListSessions(SameButBodies(storage, body), last.filter).val = last.val

(* C19: whenever the CLI reads a session, the adapter whose read_session it *)
(* calls is an available adapter and is named as the session's source.      *)
C19_ReaderMatchesSource ==
    last.op = "show_raw" =>
        /\ last.adapter = last.session.source
        /\ last.adapter \in Range(GetAllAdapters(storage, claude))

(* C20: a numeric SESSION_REF n given to show or path with a --type is the  *)
(* session log prints as entry [n] with the same --type, log being run      *)
(* with --all or without.                                                   *)
C20_NumberMeansLogEntry ==
    last.op \in {"show", "path"} =>
        \A show_all \in BOOLEAN :
            LET printed == Log(storage, claude, show_all, last.type, LogLimit)
            IN  last.ref <= Len(printed) =>
                    /\ last.session.some
                    /\ last.session.s = printed[last.ref]

(* C21: SESSION_REF may be a session ID prefix: whenever the id of some    *)
(* session that show looks through starts with the SESSION_REF string,      *)
(* show resolves to a session whose id starts with that string, digit-only  *)
(* strings included.                                                        *)
C21_PrefixResolves ==
    (last.op = "resolve_ref" /\ last.command = "show") =>
        ((\E x \in Range(Searched(storage, claude, "show")) :
              StartsWith(x.session_id.s, last.ref))
            => /\ last.session.some
               /\ StartsWith(last.session.s.session_id.s, last.ref))

(* what a summarize run that found its session and an existing summary    *)
(* file does besides the --update case                                      *)
SummarizeKeepsUnlessAsked ==
    LET existing == last.before.summary
    IN  /\ (~last.force /\ ~last.update_mode) =>
                /\ home = last.before
                /\ last.called = "none"
        /\ (last.force /\ ~last.update_mode /\ last.exc = "none") =>
                /\ last.called = "summarize_session"
                /\ ~last.failed => home.summary = TextFile(SummarizeSession(<<>>))
        /\ last.failed => home.summary = existing

Stored == LoadAnalytics(home.analytics).snapshots

(* C23: after any sequence of record_daily_snapshot calls the stored list   *)
(* holds at most one snapshot per date, and it is the one most recently     *)
(* recorded for that date.                                                  *)
C23_OneSnapshotPerDate ==
    /\ \A i, k \in 1..Len(Stored) : Stored[i].date = Stored[k].date => i = k
    /\ \A i \in 1..Len(Stored) :
           /\ Stored[i].date \in DOMAIN home.recorded
           /\ Stored[i] = home.recorded[Stored[i].date]

(* a call replaced the stored snapshot of its date by a different one *)
C23_Witness ==
    /\ last.op = "record_daily_snapshot"
    /\ \E i \in 1..Len(LoadAnalytics(last.before.analytics).snapshots) :
           LET was == LoadAnalytics(last.before.analytics).snapshots[i]
           IN  /\ was.date = last.snapshot.date
               /\ was # last.snapshot
    /\ \E i \in 1..Len(Stored) : Stored[i] = last.snapshot

(* C26: after every record_daily_snapshot call the stored snapshots are in  *)
(* ascending date order and none is dated before the cutoff of 90 days      *)
(* before now; a snapshot recorded with an older date is not retained.      *)
C26_SortedAndRetained ==
    last.op = "record_daily_snapshot" =>
        /\ \A i, k \in 1..Len(Stored) : i < k => Stored[i].date < Stored[k].date
        /\ \A i \in 1..Len(Stored) : Stored[i].date >= home.today - 90
        /\ last.snapshot.date < home.today - 90 =>
               \A i \in 1..Len(Stored) : Stored[i] # last.snapshot

(* a call with a date before the cutoff left two or more snapshots, the    *)
(* later of them recorded first                                             *)
C26_Witness ==
    /\ last.op = "record_daily_snapshot"
    /\ last.snapshot.date < home.today - 90
    /\ Len(Stored) >= 2
    /\ LoadAnalytics(last.before.analytics).snapshots # Stored

RECURSIVE SumOver(_, _)
(* the sum of the numbers f holds for the dates *)
SumOver(f, dates) ==
    IF dates = {} THEN 0
    ELSE LET d == CHOOSE x \in dates : TRUE
         IN  f[d] + SumOver(f, dates \ {d})

Lifetime == LoadAnalytics(home.analytics).lifetime

Total(F(_)) ==
    SumOver([d \in DOMAIN home.recorded |-> F(home.recorded[d])],
            DOMAIN home.recorded)

(* C27: after any sequence of record_daily_snapshot calls from an empty     *)
(* analytics file every lifetime total is the sum of its field over the     *)
(* latest snapshot of each date ever recorded, dates before the retention   *)
(* cutoff included, and none is negative.                                   *)
C27_LifetimeTotals ==
    /\ Lifetime.total_sessions = Total(LAMBDA x : x.sessions)
    /\ Lifetime.total_messages = Total(LAMBDA x : x.messages)
    /\ Lifetime.total_tool_calls = Total(LAMBDA x : x.tool_calls)
    /\ Lifetime.total_rejections = Total(LAMBDA x : x.rejections)
    /\ Lifetime.total_failures = Total(LAMBDA x : x.failures)
    /\ \A m \in DOMAIN Lifetime.model_stats :
           /\ Lifetime.model_stats[m].tool_calls
                  = Total(LAMBDA x : x.model_stats[m].tool_calls)
           /\ Lifetime.model_stats[m].rejections
                  = Total(LAMBDA x : x.model_stats[m].rejections)
           /\ Lifetime.model_stats[m].failures
                  = Total(LAMBDA x : x.model_stats[m].failures)
    /\ Lifetime.total_sessions >= 0
    /\ Lifetime.total_rejections >= 0

(* C28: after any sequence of record_daily_snapshot calls from an empty     *)
(* analytics file total_days_active is the number of distinct dates for     *)
(* which a snapshot has been recorded.                                      *)
C28_DaysActive ==
    Lifetime.total_days_active = Cardinality(DOMAIN home.recorded)

(* the sessions collect_and_record_today is to count: those of the         *)
(* adapters whose listing succeeds that are main sessions, modified today   *)
(* or later and readable                                                    *)
Countable(name, session, today) ==
    /\ IsStr(session.session_id)
    /\ ~StartsWith(session.session_id.s, S_agent)
    /\ session.modified >= today
    /\ AdapterReadSession(name, storage, session).exc = "none"

CountableToday(today) ==
    LET adapters == GetAllAdapters(storage, claude)
        listed(a) == AdapterListSessions(adapters[a], storage, claude, NoFilter)
    IN  UNION { { <<a, i>> : i \in { k \in 1..Len(listed(a).val) :
                                       Countable(adapters[a], listed(a).val[k],
                                                 today) } } :
                  a \in { b \in 1..Len(adapters) : listed(b).exc = "none" } }

(* C25: collect_and_record_today counts exactly the main sessions modified  *)
(* today whose read_session did not raise, a failing session or adapter not *)
(* stopping the others; it records and returns a snapshot exactly when that *)
(* count is positive, and otherwise returns None and leaves the analytics   *)
(* file unchanged.                                                          *)
C25_CountsTodaysMainSessions ==
    last.op = "collect_and_record_today" =>
        LET count == Cardinality(CountableToday(last.before.today))
        IN  /\ last.returned.some <=> count > 0
            /\ last.returned.some =>
                   /\ last.returned.snapshot.sessions = count
                   /\ \E i \in 1..Len(Stored) : Stored[i] = last.returned.snapshot
            /\ ~last.returned.some => home.analytics = last.before.analytics

StoredBefore == LoadAnalytics(last.before.analytics).snapshots

(* C24: backfill_analytics records only dates that are missing: never a     *)
(* date that has a stored snapshot nor today, existing snapshots stay as    *)
(* they are, a date is recorded only when a main session of that date was   *)
(* read, the number returned is the number of snapshots recorded, and a     *)
(* second run on unchanged data records nothing and returns 0.              *)
C24_BackfillOnlyMissing ==
    last.op = "backfill_analytics" =>
        /\ \A k \in 1..Len(last.done) :
               /\ last.done[k].date # last.before.today
               /\ \A i \in 1..Len(StoredBefore) :
                      StoredBefore[i].date # last.done[k].date
               /\ last.done[k].sessions > 0
        /\ \A i \in 1..Len(StoredBefore) :
               \E k \in 1..Len(Stored) : Stored[k] = StoredBefore[i]
        /\ last.returned = Len(last.done)
        /\ BackfillAnalytics(home, storage, claude, last.days).returned = 0

=============================================================================
